---------------------------- MODULE Spec2Model ----------------------------
(***************************************************************************)
(* Storefront REST facade: the /api/inventory/search, /api/inventory/check *)
(* and /api/collections route handlers, modelled as a state machine.  One  *)
(* handler invocation runs from the arrival of a request, through the      *)
(* single upstream GraphQL call, to the HTTP response.                     *)
(*                                                                         *)
(* JavaScript values are records tagged by their type in field t; numbers  *)
(* are integers, non-integers (in tenths) or NaN; strings are TLA+ strings *)
(* read character by character where the code parses them.                *)
(***************************************************************************)
EXTENDS Integers, Sequences, FiniteSets, TLC

(***************************************************************************)
(* JavaScript values                                                       *)
(***************************************************************************)
Undef == [t |-> "undefined"]
Null == [t |-> "null"]
Str(s) == [t |-> "string", s |-> s]
NaN == [k |-> "nan", v |-> 0]
Integer(i) == [k |-> "int", v |-> i]
\* a non-integer number, given in tenths: Fraction(37) is 3.7
Fraction(tenths) == [k |-> "frac", v |-> tenths]
Num(n) == [t |-> "number", n |-> n]
Bool(b) == [t |-> "boolean", b |-> b]
Arr(items) == [t |-> "array", items |-> items]
\* an object; f maps the names of the properties it has to their values
Obj(f) == [t |-> "object", f |-> f]
EmptyObj == [t |-> "object", f |-> <<>>]

IsNullish(v) == v.t \in {"undefined", "null"}

\* ToBoolean
Truthy(v) ==
  CASE v.t \in {"undefined", "null"} -> FALSE
    [] v.t = "string" -> v.s # ""
    [] v.t = "number" -> v.n.k # "nan" /\ v.n.v # 0
    [] v.t = "boolean" -> v.b
    [] OTHER -> TRUE

\* a || b
Or(a, b) == IF Truthy(a) THEN a ELSE b

\* a ?? b
Nullish(a, b) == IF IsNullish(a) THEN b ELSE a

\* v?.name (and v.name on a value that is neither null nor undefined)
Get(v, name) ==
  IF v.t = "object" /\ name \in DOMAIN v.f THEN v.f[name] ELSE Undef

\* the last element where the first is meant
LastOf(v) ==
  IF v.t = "array" /\ Len(v.items) > 0 THEN v.items[Len(v.items)] ELSE Undef

\* v?.[0]
First(v) ==
  IF v.t = "array" /\ Len(v.items) > 0 THEN v.items[1] ELSE Undef

IsArray(v) == v.t = "array"

(***************************************************************************)
(* Numbers and strings                                                     *)
(***************************************************************************)
Digits == <<"0", "1", "2", "3", "4", "5", "6", "7", "8", "9">>
IsDigit(c) == \E i \in 1..10 : Digits[i] = c
DigitVal(c) == (CHOOSE i \in 1..10 : Digits[i] = c) - 1
IsSpace(c) == c \in {" ", "\t", "\n"}

CharAt(s, i) == SubSeq(s, i, i)

RECURSIVE SkipSpaces(_, _)
\* index of the first character of s at or after i that is no white space
SkipSpaces(s, i) ==
  IF i <= Len(s) /\ IsSpace(CharAt(s, i)) THEN SkipSpaces(s, i + 1) ELSE i

RECURSIVE DigitsEnd(_, _)
\* index after the run of digits of s that starts at i
DigitsEnd(s, i) ==
  IF i <= Len(s) /\ IsDigit(CharAt(s, i)) THEN DigitsEnd(s, i + 1) ELSE i

RECURSIVE DigitsValue(_, _, _, _)
\* value of the digits s[i..j-1], read after the value acc
DigitsValue(s, i, j, acc) ==
  IF i >= j THEN acc
  ELSE DigitsValue(s, i + 1, j, 10 * acc + DigitVal(CharAt(s, i)))

RECURSIVE TrimEnd(_)
TrimEnd(s) ==
  IF Len(s) > 0 /\ IsSpace(CharAt(s, Len(s)))
  THEN TrimEnd(SubSeq(s, 1, Len(s) - 1)) ELSE s

\* String.prototype.trim
Trim(s) == TrimEnd(SubSeq(s, SkipSpaces(s, 1), Len(s)))

HasSign(s, i) == i <= Len(s) /\ CharAt(s, i) \in {"-", "+"}
SignOf(s, i) == IF i <= Len(s) /\ CharAt(s, i) = "-" THEN -1 ELSE 1

\* parseInt(s), radix 10: leading white space, a sign, then the longest run
\* of digits; whatever follows is ignored; NaN when there is no digit
ParseInt(s) ==
  LET i == SkipSpaces(s, 1)
      j == IF HasSign(s, i) THEN i + 1 ELSE i
      e == DigitsEnd(s, j)
  IN IF e = j THEN NaN ELSE Integer(SignOf(s, i) * DigitsValue(s, j, e, 0))

\* the number with the given tenths
FromTenths(x) == IF x % 10 = 0 THEN Integer(x \div 10) ELSE Fraction(x)
Tenths(n) == IF n.k = "int" THEN 10 * n.v ELSE n.v

\* Number(s) of a string: the whole trimmed text must be a decimal literal
\* (at most one fractional digit is kept); the empty text is 0
StringToNumber(s) ==
  LET u == Trim(s)
      j == IF HasSign(u, 1) THEN 2 ELSE 1
      e == DigitsEnd(u, j)
      hasDot == e <= Len(u) /\ CharAt(u, e) = "."
      fe == IF hasDot THEN DigitsEnd(u, e + 1) ELSE e
      intPart == DigitsValue(u, j, e, 0)
      frac == IF hasDot /\ fe > e + 1 THEN DigitVal(CharAt(u, e + 1)) ELSE 0
  IN IF u = "" THEN Integer(0)
     ELSE IF fe # Len(u) + 1 \/ (e = j /\ fe <= e + 1) THEN NaN
     ELSE FromTenths(SignOf(u, 1) * (10 * intPart + frac))

\* Number(v)
ToNumber(v) ==
  CASE v.t = "number" -> v.n
    [] v.t = "null" -> Integer(0)
    [] v.t = "string" -> StringToNumber(v.s)
    [] OTHER -> NaN

RECURSIVE NatToString(_)
NatToString(n) ==
  IF n < 10 THEN Digits[n + 1] ELSE NatToString(n \div 10) \o Digits[(n % 10) + 1]

Abs(x) == IF x < 0 THEN -x ELSE x

\* String(n) of a number
NumberToString(n) ==
  CASE n.k = "nan" -> "NaN"
    [] n.k = "int" -> (IF n.v < 0 THEN "-" ELSE "") \o NatToString(Abs(n.v))
    [] OTHER -> (IF n.v < 0 THEN "-" ELSE "") \o NatToString(Abs(n.v) \div 10)
                  \o "." \o Digits[(Abs(n.v) % 10) + 1]

\* String(v)
JsString(v) ==
  CASE v.t = "string" -> v.s
    [] v.t = "number" -> NumberToString(v.n)
    [] v.t = "array" -> ""
    [] v.t = "object" -> "[object Object]"
    [] OTHER -> v.t

\* Math.min(a, b)
MathMin(a, b) ==
  IF a.k = "nan" \/ b.k = "nan" THEN NaN
  ELSE IF Tenths(a) <= Tenths(b) THEN a ELSE b

\* Array.prototype.slice(0, n) of a sequence: n is truncated to an integer,
\* NaN counts as 0, a negative n counts from the end
Slice0(seq, n) ==
  LET k == IF n.k = "nan" THEN 0
           ELSE IF n.v >= 0 THEN Tenths(n) \div 10 ELSE -(Abs(Tenths(n)) \div 10)
      e == IF k < 0 THEN Len(seq) + k ELSE k
  IN SubSeq(seq, 1, IF e > Len(seq) THEN Len(seq) ELSE e)

HexDigits == <<"0", "1", "2", "3", "4", "5", "6", "7", "8", "9",
               "a", "b", "c", "d", "e", "f", "A", "B", "C", "D", "E", "F">>
IsHex(c) == \E i \in 1..22 : HexDigits[i] = c

RECURSIVE PercentOk(_, _)
\* every % of s from index i on starts an escape %XX of two hex digits;
\* decodeURIComponent raises URIError otherwise
PercentOk(s, i) ==
  IF i > Len(s) THEN TRUE
  ELSE IF CharAt(s, i) # "%" THEN PercentOk(s, i + 1)
  ELSE /\ i + 2 <= Len(s)
       /\ IsHex(CharAt(s, i + 1))
       /\ IsHex(CharAt(s, i + 2))
       /\ PercentOk(s, i + 3)

\* the character an escape stands for (the escapes the model's texts use)
Unescape(xx) ==
  CASE xx = "20" -> " "
    [] xx = "25" -> "%"
    [] xx \in {"2c", "2C"} -> ","
    [] OTHER -> "?"

RECURSIVE DecodeFrom(_, _)
DecodeFrom(s, i) ==
  IF i > Len(s) THEN ""
  ELSE IF CharAt(s, i) # "%" THEN CharAt(s, i) \o DecodeFrom(s, i + 1)
  ELSE Unescape(SubSeq(s, i + 1, i + 2)) \o DecodeFrom(s, i + 3)

RECURSIVE IndexOf(_, _, _)
\* index of the first c in s at or after i, 0 when there is none
IndexOf(s, c, i) ==
  IF i > Len(s) THEN 0
  ELSE IF CharAt(s, i) = c THEN i ELSE IndexOf(s, c, i + 1)

RECURSIVE Split(_, _)
\* String.prototype.split(c) for a one-character separator
Split(s, c) ==
  LET i == IndexOf(s, c, 1)
  IN IF i = 0 THEN <<s>>
     ELSE <<SubSeq(s, 1, i - 1)>> \o Split(SubSeq(s, i + 1, Len(s)), c)

\* String.prototype.startsWith
StartsWith(s, prefix) ==
  Len(s) >= Len(prefix) /\ SubSeq(s, 1, Len(prefix)) = prefix

\* strings.filter((s) => s): the strings of seq that are not empty, in order
RECURSIVE NonEmptyOnly(_)
NonEmptyOnly(seq) ==
  IF seq = <<>> THEN <<>>
  ELSE (IF Head(seq) # "" THEN <<Head(seq)>> ELSE <<>>) \o NonEmptyOnly(Tail(seq))

RECURSIVE JsonPercentOk(_)
\* decodeURIComponent succeeds on the JSON text of v
JsonPercentOk(v) ==
  CASE v.t = "string" -> PercentOk(v.s, 1)
    [] v.t = "array" -> \A i \in 1..Len(v.items) : JsonPercentOk(v.items[i])
    [] v.t = "object" -> \A n \in DOMAIN v.f : JsonPercentOk(v.f[n])
    [] OTHER -> TRUE

RECURSIVE JsonDecoded(_)
\* the value whose JSON text is decodeURIComponent of the JSON text of v
JsonDecoded(v) ==
  CASE v.t = "string" -> Str(DecodeFrom(v.s, 1))
    [] v.t = "array" -> Arr([i \in 1..Len(v.items) |-> JsonDecoded(v.items[i])])
    [] v.t = "object" -> Obj([n \in DOMAIN v.f |-> JsonDecoded(v.f[n])])
    [] OTHER -> v

(***************************************************************************)
(* Requests                                                                *)
(*                                                                         *)
(* A text (the request body, the `message` query parameter) is absent or   *)
(* empty ("none"), is no JSON ("malformed"), or is the JSON text of a      *)
(* value ("json").  A query parameter is Null when absent, as              *)
(* URLSearchParams.get returns it, and a string otherwise.                 *)
(***************************************************************************)
NoText == [kind |-> "none", json |-> Undef]
Malformed == [kind |-> "malformed", json |-> Undef]
JsonText(v) == [kind |-> "json", json |-> v]

\* searchParams.get(name)
Param(req, name) == IF name \in DOMAIN req.params THEN Str(req.params[name]) ELSE Null

\* a read of the request body (request.text(), request.json()) succeeds on a
\* request without body any number of times, and once on a body stream: a
\* second read of a consumed stream rejects with a TypeError
CanRead(req, used) == req.body.kind = "none" \/ ~used
\* the stream is consumed by a read, whether or not the text then parses
UsedAfterRead(req, used) == used \/ req.body.kind # "none"

\* JSON.parse(text) returns (it raises SyntaxError on the empty text too)
Parses(text) == text.kind = "json"

(***************************************************************************)
(* Upstream: storefrontRequest and the Storefront API's answers            *)
(***************************************************************************)
MaxEdges == 2

ProductId(i) == Str("p" \o NatToString(i))

\* what the Storefront API can answer to one GraphQL request: a non-2xx
\* status or a network failure ("throw": storefrontRequest raises), a 2xx
\* payload without the data field asked for ("nodata"), or the data
Outcomes ==
  {[kind |-> "throw", edges |-> <<>>, hasNextPage |-> FALSE],
   [kind |-> "nodata", edges |-> <<>>, hasNextPage |-> FALSE]}
  \cup {[kind |-> "data", edges |-> [i \in 1..n |-> ProductId(i)], hasNextPage |-> h] :
          n \in 0..MaxEdges, h \in BOOLEAN}

EndCursor(o) == IF o.hasNextPage THEN Str("c2") ELSE Null

SearchCall(query, first, after) ==
  [op |-> "ProductSearch", vars |-> [query |-> query, first |-> first, after |-> after]]

(***************************************************************************)
(* Responses                                                               *)
(***************************************************************************)
\* corsHeaders(origin): the response carries the CORS headers or not
Response(status, body, cors) == [status |-> status, body |-> body, cors |-> cors]

NoResponse == Response(0, Undef, FALSE)

\* JSON.stringify(v): a string holding the JSON text of v
Stringify(v) == [t |-> "string", s |-> "json", json |-> v]

\* an object serialized by NextResponse.json: undefined properties vanish
JsonObj(f) == Obj([n \in {m \in DOMAIN f : f[m] # Undef} |-> f[n]])

\* { results: [{ toolCallId, result }] }
ResultsBody(toolCallId, result) ==
  Obj([results |-> Arr(<<JsonObj([toolCallId |-> toolCallId, result |-> result])>>)])

ErrorObj(msg) == Obj([error |-> Str(msg)])

\* how the part of a handler that runs before the upstream request ends: it
\* issues the request ("call"), returns a response ("early") or raises into
\* the handler's catch block ("threw")
Calls(isVapi, toolCallId, call) ==
  [kind |-> "call", isVapi |-> isVapi, toolCallId |-> toolCallId, call |-> call,
   early |-> NoResponse]
Early(isVapi, toolCallId, resp) ==
  [kind |-> "early", isVapi |-> isVapi, toolCallId |-> toolCallId,
   call |-> SearchCall(Undef, Undef, Undef), early |-> resp]
Threw(isVapi, toolCallId) ==
  [kind |-> "threw", isVapi |-> isVapi, toolCallId |-> toolCallId,
   call |-> SearchCall(Undef, Undef, Undef), early |-> NoResponse]

(***************************************************************************)
(* GET /api/inventory/search                                               *)
(***************************************************************************)
DEFAULT_LIMIT == 5
MAX_LIMIT == 50

\* the arguments laid over the parameters, field by field
ToolCallArgs_Merged(toolCall) ==
  LET a == Or(Get(toolCall, "arguments"), EmptyObj)
      p == Or(Get(Get(toolCall, "function"), "parameters"), EmptyObj)
  IN Obj([n \in DOMAIN a.f \cup DOMAIN p.f |->
            IF n \in DOMAIN a.f THEN a.f[n] ELSE p.f[n]])

\* toolCall.arguments || toolCall.function?.parameters || {}
ToolCallArgs(toolCall) ==
  Or(Get(toolCall, "arguments"),
     Or(Get(Get(toolCall, "function"), "parameters"), EmptyObj))

\* the `message` query parameter, URI-decoded and parsed; Undef when the
\* decoding or the parse raises (the catch block logs and goes on)
DecodedMessage(req) ==
  IF Parses(req.message) /\ JsonPercentOk(req.message.json)
       /\ ~IsNullish(req.message.json)
  THEN JsonDecoded(req.message.json) ELSE Undef

\* the fallback with the plain parameters tried before the `message` envelope
SearchGET_Fallback_PlainFirst(req, bodyId, bodyArgs) ==
  LET query == Or(Param(req, "q"), Or(Param(req, "query"), Str("")))
      limit == Param(req, "limit")
      cursor == Param(req, "cursor")
      decoded == IF req.message.kind # "none" THEN DecodedMessage(req) ELSE Undef
      toolCall == First(Get(decoded, "toolCallList"))
      fromMessage == Truthy(Get(decoded, "toolCallList")) /\ Truthy(toolCall)
  IN IF Truthy(query) \/ Truthy(limit) \/ Truthy(cursor)
     THEN [toolCallId |-> Str("query-params-fallback"),
           vapiArgs |-> Obj([q |-> query,
                             limit |-> IF Truthy(limit)
                                       THEN Num(ParseInt(limit.s)) ELSE Undef,
                             cursor |-> Or(cursor, Undef)])]
     ELSE IF fromMessage
     THEN [toolCallId |-> Get(toolCall, "id"), vapiArgs |-> ToolCallArgs(toolCall)]
     ELSE [toolCallId |-> bodyId, vapiArgs |-> bodyArgs]

\* the query-parameter fallback, entered when the body gave no toolCallId
SearchGET_Fallback(req, bodyId, bodyArgs) ==
  LET query == Or(Param(req, "q"), Or(Param(req, "query"), Str("")))
      limit == Param(req, "limit")
      cursor == Param(req, "cursor")
      decoded == IF req.message.kind # "none" THEN DecodedMessage(req) ELSE Undef
      toolCall == First(Get(decoded, "toolCallList"))
      fromMessage == Truthy(Get(decoded, "toolCallList")) /\ Truthy(toolCall)
      id1 == IF fromMessage THEN Get(toolCall, "id") ELSE bodyId
      args1 == IF fromMessage THEN ToolCallArgs(toolCall) ELSE bodyArgs
  IN IF ~Truthy(id1) /\ (Truthy(query) \/ Truthy(limit) \/ Truthy(cursor))
     THEN [toolCallId |-> Str("query-params-fallback"),
           vapiArgs |-> Obj([q |-> query,
                             limit |-> IF Truthy(limit)
                                       THEN Num(ParseInt(limit.s)) ELSE Undef,
                             cursor |-> Or(cursor, Undef)])]
     ELSE [toolCallId |-> id1, vapiArgs |-> args1]

\* the final parameter resolution: vapiArgs.q || "", the limit parsed and
\* capped, vapiArgs.cursor || null
SearchGET_Final(vapiArgs) ==
  SearchCall(Or(Get(vapiArgs, "q"), Str("")),
             Num(MathMin(ParseInt(JsString(Nullish(Get(vapiArgs, "limit"),
                                                   Num(Integer(DEFAULT_LIMIT))))),
                         Integer(MAX_LIMIT))),
             Or(Get(vapiArgs, "cursor"), Null))

\* the handler up to its upstream call: the tool call it detected and the
\* variables of the ProductSearch request
SearchGET_FromBody(bodyJson) ==
  LET toolCall == First(Get(Get(bodyJson, "message"), "toolCallList"))
      isVapiRequest == Truthy(toolCall)
  IN [isVapi |-> isVapiRequest,
      toolCallId |-> IF isVapiRequest THEN Get(toolCall, "id") ELSE Undef,
      vapiArgs |-> IF isVapiRequest THEN ToolCallArgs(toolCall) ELSE EmptyObj]

SearchGET_Normalize(req) ==
  LET bodyJson == IF Parses(req.body) THEN req.body.json ELSE Null
      fromBody == SearchGET_FromBody(bodyJson)
      found == IF ~Truthy(fromBody.toolCallId)
               THEN SearchGET_Fallback(req, fromBody.toolCallId, fromBody.vapiArgs)
               ELSE [toolCallId |-> fromBody.toolCallId, vapiArgs |-> fromBody.vapiArgs]
  IN Calls(fromBody.isVapi, found.toolCallId, SearchGET_Final(found.vapiArgs))

\* the catch block naming the fallback the try block had taken
SearchGET_ErrorToolCallId_Fallback(req, used) ==
  IF \E n \in {"q", "query", "limit", "cursor"} : Truthy(Param(req, n))
  THEN Str("query-params-fallback") ELSE Str("unknown")

\* the catch block's second read of the body, for the toolCallId
SearchGET_ErrorToolCallId(req, used) ==
  LET toolCall == First(Get(Get(req.body.json, "message"), "toolCallList"))
  IN IF CanRead(req, used) /\ Parses(req.body) /\ Truthy(toolCall)
     THEN Get(toolCall, "id") ELSE Str("unknown")

\* the handler from the upstream answer on
SearchGET_Respond(req, loc, used, o) ==
  CASE o.kind = "throw" ->
         Response(500, ResultsBody(SearchGET_ErrorToolCallId(req, used),
                                   Stringify(ErrorObj("Internal server error"))), TRUE)
    [] o.kind = "nodata" ->
         Response(500, ResultsBody(Or(loc.toolCallId, Str("unknown")),
                                   Stringify(ErrorObj("Failed to fetch products"))), TRUE)
    [] OTHER ->
         Response(200,
                  ResultsBody(Or(loc.toolCallId, Str("unknown")),
                              Stringify(Obj([query |-> loc.call.vars.query,
                                             totalFound |-> Num(Integer(Len(o.edges))),
                                             products |-> Arr(Slice0(o.edges, loc.call.vars.first.n))]))),
                  TRUE)

(***************************************************************************)
(* POST /api/inventory/search                                              *)
(***************************************************************************)
\* request.json() in the try block, then request.text() in its catch block:
\* the body the handler ends up with, or Threw when the second read raises.
\* Object.keys(requestBody), logged right after request.json(), raises on
\* null and so sends a body of `null` to the catch block as well.
BodyReadRaises(req) ==
  /\ req.body.kind # "none"
  /\ ~(Parses(req.body) /\ ~IsNullish(req.body.json))

\* the body after the reads, when they do not raise
BodyRead(req) == IF Parses(req.body) THEN req.body.json ELSE Null

\* Array.isArray(message?.toolCallList) ? message.toolCallList[0] : undefined
FirstToolCall(body) ==
  LET list == Get(Get(body, "message"), "toolCallList")
  IN IF IsArray(list) THEN First(list) ELSE Undef

SearchPOST_Normalize(req) ==
  LET requestBody == BodyRead(req)
      vapiToolCall == FirstToolCall(requestBody)
      isVapi == Truthy(vapiToolCall)
      vapiArgs == Or(Get(vapiToolCall, "arguments"),
                     Or(Get(Get(vapiToolCall, "function"), "parameters"), EmptyObj))
      body == Or(IF isVapi THEN vapiArgs ELSE requestBody, EmptyObj)
      q == Str(JsString(Nullish(Get(body, "q"), Str(""))))
      limit == MathMin(ToNumber(Nullish(Get(body, "limit"), Num(Integer(DEFAULT_LIMIT)))),
                       Integer(MAX_LIMIT))
      cursor == Nullish(Get(body, "cursor"), Null)
  IN IF BodyReadRaises(req) THEN Threw(FALSE, Undef)
     ELSE Calls(isVapi, Get(vapiToolCall, "id"), SearchCall(q, Num(limit), cursor))

\* { products, pagination: { hasNextPage, endCursor, totalCount } }
SearchPayload(o) ==
  Obj([products |-> Arr(o.edges),
       pagination |-> Obj([hasNextPage |-> Bool(o.hasNextPage),
                           endCursor |-> EndCursor(o),
                           totalCount |-> Num(Integer(Len(o.edges)))])])

\* the catch block: request.json() is read again to find the tool call
\* the catch block with its second read outside any try block
SearchPOST_Catch_Unguarded(req, used) ==
  LET vapiToolCall == FirstToolCall(req.body.json)
  IN IF ~(CanRead(req, used) /\ Parses(req.body)) THEN NoResponse
     ELSE IF Truthy(vapiToolCall)
     THEN Response(500, ResultsBody(Get(vapiToolCall, "id"),
                                    ErrorObj("Internal server error")), TRUE)
     ELSE Response(500, ErrorObj("Internal server error"), TRUE)

SearchPOST_Catch(req, used) ==
  LET vapiToolCall == FirstToolCall(req.body.json)
  IN IF CanRead(req, used) /\ Parses(req.body) /\ Truthy(vapiToolCall)
     THEN Response(500, ResultsBody(Get(vapiToolCall, "id"),
                                    ErrorObj("Internal server error")), TRUE)
     ELSE Response(500, ErrorObj("Internal server error"), TRUE)

\* the success answered without the tool-call wrapper
SearchPOST_Respond_Bare(req, loc, used, o) ==
  CASE o.kind = "throw" -> SearchPOST_Catch(req, used)
    [] o.kind = "nodata" -> Response(500, ErrorObj("Failed to fetch products"), FALSE)
    [] OTHER -> Response(200, SearchPayload(o), TRUE)

SearchPOST_Respond(req, loc, used, o) ==
  CASE o.kind = "throw" -> SearchPOST_Catch(req, used)
    [] o.kind = "nodata" -> Response(500, ErrorObj("Failed to fetch products"), FALSE)
    [] OTHER ->
         IF loc.isVapi
         THEN Response(200, ResultsBody(loc.toolCallId, SearchPayload(o)), TRUE)
         ELSE Response(200, SearchPayload(o), TRUE)

(***************************************************************************)
(* GET /api/inventory/search, the revision that also reads the body's      *)
(* toolCall, arguments and plain q/limit/cursor                            *)
(***************************************************************************)
\* the tool call of the body, in the first of its forms that applies
SearchGET7_FromBody(bodyJson) ==
  LET callFromMessage == IF Truthy(bodyJson) THEN FirstToolCall(bodyJson) ELSE Undef
      callFromToolCall == Get(bodyJson, "toolCall")
      directArgs == Get(bodyJson, "arguments")
  IN IF Truthy(callFromMessage)
     THEN [isVapi |-> TRUE, toolCallId |-> Get(callFromMessage, "id"),
           vapiArgs |-> ToolCallArgs(callFromMessage)]
     ELSE IF Truthy(callFromToolCall)
             /\ (Truthy(Get(callFromToolCall, "arguments"))
                 \/ Truthy(Get(Get(callFromToolCall, "function"), "parameters")))
     THEN [isVapi |-> FALSE, toolCallId |-> Get(callFromToolCall, "id"),
           vapiArgs |-> ToolCallArgs(callFromToolCall)]
     ELSE IF Truthy(directArgs)
     THEN [isVapi |-> FALSE,
           toolCallId |-> Or(Get(bodyJson, "id"), Str("vapi-direct-args")),
           vapiArgs |-> directArgs]
     ELSE IF Truthy(bodyJson)
             /\ (Truthy(Get(bodyJson, "q")) \/ Truthy(Get(bodyJson, "limit"))
                 \/ Truthy(Get(bodyJson, "cursor")))
     THEN [isVapi |-> FALSE,
           toolCallId |-> Or(Get(bodyJson, "id"), Str("vapi-simple-body")),
           vapiArgs |-> Obj([q |-> Get(bodyJson, "q"),
                             limit |-> Get(bodyJson, "limit"),
                             cursor |-> Get(bodyJson, "cursor")])]
     ELSE [isVapi |-> FALSE, toolCallId |-> Undef, vapiArgs |-> EmptyObj]

SearchGET7_Normalize(req) ==
  LET bodyJson == IF Parses(req.body) THEN req.body.json ELSE Null
      fromBody == SearchGET7_FromBody(bodyJson)
      found == IF ~Truthy(fromBody.toolCallId)
               THEN SearchGET_Fallback(req, fromBody.toolCallId, fromBody.vapiArgs)
               ELSE [toolCallId |-> fromBody.toolCallId, vapiArgs |-> fromBody.vapiArgs]
  IN Calls(fromBody.isVapi, found.toolCallId, SearchGET_Final(found.vapiArgs))

\* the catch block's second read of the body, for the toolCallId
SearchGET7_ErrorToolCallId(req, used) ==
  LET bodyJson == req.body.json
      list == Get(Get(bodyJson, "message"), "toolCallList")
      call == IF IsArray(list) THEN First(list)
              ELSE Or(Get(bodyJson, "toolCall"), bodyJson)
  IN IF CanRead(req, used) /\ Parses(req.body)
     THEN Or(Get(call, "id"), Str("unknown")) ELSE Str("unknown")

SearchGET7_Respond(req, loc, used, o) ==
  IF o.kind = "throw"
  THEN Response(500, ResultsBody(SearchGET7_ErrorToolCallId(req, used),
                                 Stringify(ErrorObj("Internal server error"))), TRUE)
  ELSE SearchGET_Respond(req, loc, used, o)

(***************************************************************************)
(* GET /api/inventory/search, the revision for REST callers: plain query   *)
(* parameters with filters, or the tool-call envelope in `message`         *)
(***************************************************************************)
PLAIN_DEFAULT_LIMIT == 20

\* the handler up to its upstream call; the body is not read
SearchGET4_Normalize(req) ==
  LET parsed == IF Parses(req.message) THEN req.message.json ELSE Undef
      call == IF IsArray(Get(parsed, "toolCallList"))
              THEN First(Get(parsed, "toolCallList")) ELSE Undef
      isVapi == Truthy(call)
      vapiArgs == IF isVapi THEN ToolCallArgs(call) ELSE EmptyObj
      query == Or(IF isVapi THEN Get(vapiArgs, "q") ELSE Param(req, "q"), Str(""))
      limit == MathMin(ParseInt(IF isVapi
                                THEN JsString(Nullish(Get(vapiArgs, "limit"),
                                                      Str(NumberToString(Integer(DEFAULT_LIMIT)))))
                                ELSE Or(Param(req, "limit"),
                                        Str(NumberToString(Integer(PLAIN_DEFAULT_LIMIT)))).s),
                       Integer(MAX_LIMIT))
      cursor == Or(IF isVapi THEN Get(vapiArgs, "cursor") ELSE Param(req, "cursor"), Null)
      Filter(name, prefix) ==
        IF Truthy(Param(req, name)) THEN " " \o prefix \o Param(req, name).s ELSE ""
      available == IF Param(req, "available") = Str("true") THEN "true" ELSE "false"
      filters == Filter("product_type", "product_type:") \o Filter("vendor", "vendor:")
                 \o Filter("tag", "tag:") \o Filter("min_price", "price:>=")
                 \o Filter("max_price", "price:<=")
                 \o " available_for_sale:" \o available
      searchQuery == IF isVapi THEN query ELSE Str(Trim(JsString(query) \o filters))
  IN Calls(isVapi, IF isVapi THEN Get(call, "id") ELSE Undef,
           SearchCall(searchQuery, Num(limit), cursor))

\* the sentence read out to the voice caller: how many were found, and the
\* first `limit` of them
Spoken(query, o, limit) ==
  [t |-> "string", s |-> "spoken", query |-> query, found |-> Len(o.edges),
   lines |-> Slice0(o.edges, limit)]

\* the handler from the upstream answer on
SearchGET4_Respond(req, loc, o) ==
  CASE o.kind = "throw" -> Response(500, ErrorObj("Internal server error"), TRUE)
    [] o.kind = "nodata" -> Response(500, ErrorObj("Failed to fetch products"), FALSE)
    [] OTHER ->
         IF loc.isVapi
         THEN Response(200,
                       ResultsBody(Or(loc.toolCallId, Str("unknown")),
                                   Spoken(loc.call.vars.query, o, loc.call.vars.first.n)),
                       TRUE)
         ELSE Response(200, SearchPayload(o), TRUE)

(***************************************************************************)
(* GET and POST /api/inventory/check, the tool-call aware revision         *)
(***************************************************************************)
MaxNodes == 2

\* a variant node of the upstream answer, or null for an id it does not know
Node(i, qty) == Obj([id |-> ProductId(i), quantityAvailable |-> qty])
QtyVals == {Null, Num(Integer(0)), Num(Integer(3)), Num(Integer(9)), Num(Integer(-1))}
NodeLists(n) == [1..n -> {Null} \cup {Node(1, q) : q \in QtyVals}]

InvOutcomes ==
  {[kind |-> "throw", nodes |-> <<>>], [kind |-> "nodata", nodes |-> <<>>]}
  \cup {[kind |-> "data", nodes |-> ns] : ns \in UNION {NodeLists(n) : n \in 0..MaxNodes}}

InventoryCall(ids) == [op |-> "InventoryItems", vars |-> [ids |-> ids]]

\* the ids of the parameter in the reverse of the order given
VariantIds_Reversed(ids) ==
  LET parts == Split(ids, ",")
      kept == NonEmptyOnly([i \in 1..Len(parts) |-> Trim(parts[i])])
  IN [i \in 1..Len(kept) |-> kept[Len(kept) + 1 - i]]

\* ids.split(",").map(trim).filter(nonempty)
VariantIds(ids) ==
  LET parts == Split(ids, ",")
  IN NonEmptyOnly([i \in 1..Len(parts) |-> Trim(parts[i])])

\* id.startsWith("gid://") ? id : `gid://shopify/ProductVariant/${id}`
FormatVariantId(id) ==
  IF StartsWith(id, "gid://") THEN id ELSE "gid://shopify/ProductVariant/" \o id

FormattedIds(variantIds) ==
  [i \in 1..Len(variantIds) |-> FormatVariantId(variantIds[i])]

\* a validation failure: wrapped for a tool call, the bare error otherwise
InvError(isVapi, toolCallId, status, msg) ==
  IF isVapi /\ Truthy(toolCallId)
  THEN Response(status, ResultsBody(toolCallId, ErrorObj(msg)), TRUE)
  ELSE Response(status, ErrorObj(msg), FALSE)

\* from the ids text to the upstream request or the 400 response
InvFromIds(isVapi, toolCallId, ids) ==
  IF ~Truthy(ids)
  THEN Early(isVapi, toolCallId,
             InvError(isVapi, toolCallId, 400, "Variant IDs are required"))
  ELSE IF ids.t # "string" THEN Threw(isVapi, toolCallId)
  ELSE IF VariantIds(ids.s) = <<>>
  THEN Early(isVapi, toolCallId,
             InvError(isVapi, toolCallId, 400,
                      "At least one valid variant ID is required"))
  ELSE Calls(isVapi, toolCallId, InventoryCall(FormattedIds(VariantIds(ids.s))))

InvGET_Normalize(req) ==
  LET requestBody == BodyRead(req)
      toolCall == First(Get(Get(requestBody, "message"), "toolCallList"))
      isVapiRequest == Truthy(toolCall)
      toolCallId == IF isVapiRequest THEN Get(toolCall, "id") ELSE Undef
  IN IF BodyReadRaises(req) THEN Threw(FALSE, Undef)
     ELSE InvFromIds(isVapiRequest, toolCallId, Param(req, "ids"))

InvPOST_Normalize(req) ==
  LET requestBody == BodyRead(req)
      vapiToolCall == FirstToolCall(requestBody)
      isVapiRequest == Truthy(vapiToolCall)
      toolCallId == IF isVapiRequest THEN Get(vapiToolCall, "id") ELSE Undef
      args == Or(Get(vapiToolCall, "arguments"), requestBody)
  IN IF BodyReadRaises(req) THEN Threw(FALSE, Undef)
     ELSE InvFromIds(isVapiRequest, toolCallId, Get(args, "ids"))

\* item.inventoryQuantity > 0, === 0, <= 5 on a number or null
QtyPositive(q) == q.t = "number" /\ q.n.k # "nan" /\ Tenths(q.n) > 0
QtyZero(q) == q.t = "number" /\ q.n.k # "nan" /\ Tenths(q.n) = 0
QtyAtMost5(q) == q.t = "null" \/ (q.t = "number" /\ q.n.k # "nan" /\ Tenths(q.n) <= 50)

\* { inventory, summary: { totalVariants, inStock, outOfStock, lowStock } }
InventoryResult(nodes) ==
  LET qty == [i \in 1..Len(nodes) |-> Get(nodes[i], "quantityAvailable")]
      inStock == {i \in 1..Len(nodes) : QtyPositive(qty[i])}
      outOfStock == {i \in 1..Len(nodes) : QtyZero(qty[i])}
      lowStock == {i \in 1..Len(nodes) : QtyPositive(qty[i]) /\ QtyAtMost5(qty[i])}
  IN Obj([inventory |-> Arr([i \in 1..Len(nodes) |->
                               Obj([id |-> Get(nodes[i], "id"),
                                    inventoryQuantity |-> qty[i]])]),
          summary |-> Obj([totalVariants |-> Num(Integer(Len(nodes))),
                           inStock |-> Num(Integer(Cardinality(inStock))),
                           outOfStock |-> Num(Integer(Cardinality(outOfStock))),
                           lowStock |-> Num(Integer(Cardinality(lowStock)))])])

\* the catch block answering with the failure as a success
Inv_Catch_200(loc) ==
  IF loc.isVapi /\ Truthy(loc.toolCallId)
  THEN Response(200, ResultsBody(loc.toolCallId, ErrorObj("Internal server error")), TRUE)
  ELSE Response(500, ErrorObj("Internal server error"), TRUE)

\* the catch block of both inventory handlers
Inv_Catch(loc) ==
  IF loc.isVapi /\ Truthy(loc.toolCallId)
  THEN Response(500, ResultsBody(loc.toolCallId, ErrorObj("Internal server error")), TRUE)
  ELSE Response(500, ErrorObj("Internal server error"), TRUE)

\* node.id is read of every node: a null node raises into the catch block
Inv_Respond(loc, o) ==
  CASE o.kind = "throw" -> Inv_Catch(loc)
    [] o.kind = "nodata" ->
         InvError(loc.isVapi, loc.toolCallId, 500, "Failed to fetch inventory data")
    [] OTHER ->
         IF \E i \in 1..Len(o.nodes) : IsNullish(o.nodes[i]) THEN Inv_Catch(loc)
         ELSE IF loc.isVapi /\ Truthy(loc.toolCallId)
         THEN Response(200, ResultsBody(loc.toolCallId, InventoryResult(o.nodes)), TRUE)
         ELSE Response(200, InventoryResult(o.nodes), TRUE)

(***************************************************************************)
(* GET and POST /api/inventory/check, the plain revision                   *)
(***************************************************************************)
MAX_VARIANTS == 50

\* variantIds.map(id => id.startsWith("gid://") ? id : ...): the method is
\* missing on an element that is no string, and the map raises
CheckFormatRaises(variantIds) ==
  \E i \in 1..Len(variantIds) : variantIds[i].t # "string"

CheckFormattedIds(variantIds) ==
  [i \in 1..Len(variantIds) |-> FormatVariantId(variantIds[i].s)]

CheckGET_Normalize(req) ==
  LET variantIds == Param(req, "ids")
  IN IF ~Truthy(variantIds)
     THEN Early(FALSE, Undef, Response(400, ErrorObj("Variant IDs are required"), FALSE))
     ELSE IF VariantIds(variantIds.s) = <<>>
     THEN Early(FALSE, Undef,
                Response(400, ErrorObj("At least one valid variant ID is required"), FALSE))
     ELSE Calls(FALSE, Undef, InventoryCall(FormattedIds(VariantIds(variantIds.s))))

\* the limit test as `variantIds.length >= 50`
CheckPOST_Normalize_AtLeast(req) ==
  LET body == BodyRead(req)
      variantIds == Get(body, "variantIds")
  IN IF ~Parses(req.body) \/ IsNullish(body) THEN Threw(FALSE, Undef)
     ELSE IF ~Truthy(variantIds) \/ ~IsArray(variantIds) \/ Len(variantIds.items) = 0
     THEN Early(FALSE, Undef,
                Response(400, ErrorObj("variantIds array is required"), FALSE))
     ELSE IF Len(variantIds.items) >= MAX_VARIANTS
     THEN Early(FALSE, Undef,
                Response(400, ErrorObj("Maximum 50 variants can be checked at once"), FALSE))
     ELSE IF CheckFormatRaises(variantIds.items) THEN Threw(FALSE, Undef)
     ELSE Calls(FALSE, Undef, InventoryCall(CheckFormattedIds(variantIds.items)))

\* request.json() and the destructuring of its value are inside the try
CheckPOST_Normalize(req) ==
  LET body == BodyRead(req)
      variantIds == Get(body, "variantIds")
  IN IF ~Parses(req.body) \/ IsNullish(body) THEN Threw(FALSE, Undef)
     ELSE IF ~Truthy(variantIds) \/ ~IsArray(variantIds) \/ Len(variantIds.items) = 0
     THEN Early(FALSE, Undef,
                Response(400, ErrorObj("variantIds array is required"), FALSE))
     ELSE IF Len(variantIds.items) > MAX_VARIANTS
     THEN Early(FALSE, Undef,
                Response(400, ErrorObj("Maximum 50 variants can be checked at once"), FALSE))
     ELSE IF CheckFormatRaises(variantIds.items) THEN Threw(FALSE, Undef)
     ELSE Calls(FALSE, Undef, InventoryCall(CheckFormattedIds(variantIds.items)))

Check_Catch == Response(500, ErrorObj("Internal server error"), FALSE)

\* the handlers read node.inventoryQuantity, a field INVENTORY_QUERY does
\* not ask for: every quantity of the answer is undefined
CheckResult(nodes) ==
  LET qty == [i \in 1..Len(nodes) |-> Get(nodes[i], "inventoryQuantity")]
      inStock == {i \in 1..Len(nodes) : QtyPositive(qty[i])}
      outOfStock == {i \in 1..Len(nodes) : QtyZero(qty[i])}
      lowStock == {i \in 1..Len(nodes) : QtyPositive(qty[i]) /\ QtyAtMost5(qty[i])}
  IN Obj([inventory |-> Arr([i \in 1..Len(nodes) |->
                               JsonObj([id |-> Get(nodes[i], "id"),
                                        inventoryQuantity |-> qty[i]])]),
          summary |-> Obj([totalVariants |-> Num(Integer(Len(nodes))),
                           inStock |-> Num(Integer(Cardinality(inStock))),
                           outOfStock |-> Num(Integer(Cardinality(outOfStock))),
                           lowStock |-> Num(Integer(Cardinality(lowStock)))])])

Check_Respond(o) ==
  CASE o.kind = "throw" -> Check_Catch
    [] o.kind = "nodata" ->
         Response(500, ErrorObj("Failed to fetch inventory data"), FALSE)
    [] OTHER ->
         IF \E i \in 1..Len(o.nodes) : IsNullish(o.nodes[i]) THEN Check_Catch
         ELSE Response(200, CheckResult(o.nodes), FALSE)

(***************************************************************************)
(* GET /api/products/[id]                                                  *)
(***************************************************************************)
\* a variant of the product the upstream answers with
Variant(i, qty) == Obj([id |-> ProductId(i), inventoryQuantity |-> qty])
Product(variants) ==
  Obj([id |-> Str("gid://shopify/Product/7"), title |-> Str("Hat"),
       variants |-> Arr(variants)])

\* what the Storefront API can answer to ProductById
ProductOutcomes ==
  {[kind |-> "throw", product |-> Undef], [kind |-> "nodata", product |-> Undef],
   [kind |-> "data", product |-> Null]}
  \cup {[kind |-> "data", product |-> Product(vs)]
          : vs \in UNION {[1..n -> {Variant(1, q) : q \in QtyVals}] : n \in 0..MaxNodes}}

ProductCall(id) == [op |-> "ProductById", vars |-> [id |-> id]]

\* `gid://shopify/Product/${productId}` whatever the id
FormatProductId_Always(productId) == "gid://shopify/Product/" \o productId

\* productId.startsWith("gid://") ? productId : `gid://shopify/Product/${productId}`
FormatProductId(productId) ==
  IF StartsWith(productId, "gid://") THEN productId
  ELSE "gid://shopify/Product/" \o productId

\* params.id is the path segment of the request
ProductGET_Normalize(req) ==
  LET productId == Param(req, "id")
  IN IF ~Truthy(productId)
     THEN Early(FALSE, Undef, Response(400, ErrorObj("Product ID is required"), FALSE))
     ELSE Calls(FALSE, Undef, ProductCall(FormatProductId(productId.s)))

\* the transformed product: id, title, variants, totalVariants, inStock
TransformedProduct(product) ==
  LET variants == Get(product, "variants").items
  IN Obj([id |-> Get(product, "id"),
          title |-> Get(product, "title"),
          variants |-> Arr([i \in 1..Len(variants) |->
                              Obj([id |-> Get(variants[i], "id"),
                                   inventoryQuantity |->
                                     Get(variants[i], "inventoryQuantity")])]),
          totalVariants |-> Num(Integer(Len(variants))),
          inStock |-> Bool(\E i \in 1..Len(variants) :
                             QtyPositive(Get(variants[i], "inventoryQuantity")))])

\* a null product answered as an empty success
ProductGET_Respond_Null(o) ==
  CASE o.kind = "throw" -> Response(500, ErrorObj("Internal server error"), FALSE)
    [] o.kind = "nodata" -> Response(404, ErrorObj("Product not found"), FALSE)
    [] OTHER ->
         IF ~Truthy(o.product) THEN Response(200, Null, FALSE)
         ELSE Response(200, TransformedProduct(o.product), FALSE)

\* !response?.data?.product answers 404 for a payload without data too
ProductGET_Respond(o) ==
  CASE o.kind = "throw" -> Response(500, ErrorObj("Internal server error"), FALSE)
    [] o.kind = "nodata" -> Response(404, ErrorObj("Product not found"), FALSE)
    [] OTHER ->
         IF ~Truthy(o.product)
         THEN Response(404, ErrorObj("Product not found"), FALSE)
         ELSE Response(200, TransformedProduct(o.product), FALSE)

(***************************************************************************)
(* GET /api/collections                                                    *)
(***************************************************************************)
COLLECTIONS_DEFAULT_LIMIT == 20

CollectionsCall(first, after) ==
  [op |-> "Collections", vars |-> [first |-> first, after |-> after]]

CollectionsGET_Normalize(req) ==
  LET limit == MathMin(ParseInt(JsString(Or(Param(req, "limit"),
                                            Str(NumberToString(Integer(COLLECTIONS_DEFAULT_LIMIT)))))),
                       Integer(MAX_LIMIT))
      cursor == Param(req, "cursor")
  IN Calls(FALSE, Undef, CollectionsCall(Num(limit), Or(cursor, Null)))

CollectionsGET_Respond(o) ==
  CASE o.kind = "throw" -> Response(500, ErrorObj("Internal server error"), TRUE)
    [] o.kind = "nodata" -> Response(500, ErrorObj("Failed to fetch collections"), FALSE)
    [] OTHER ->
         Response(200,
                  Obj([collections |-> Arr(o.edges),
                       pagination |-> Obj([hasNextPage |-> Bool(o.hasNextPage),
                                           endCursor |-> EndCursor(o),
                                           totalCount |-> Num(Integer(Len(o.edges)))])]),
                  TRUE)

(***************************************************************************)
(* The requests the model draws                                            *)
(***************************************************************************)
MaxCalls == 2

\* an object with the properties of f that are not undefined
Fields(f) == Obj([n \in {m \in DOMAIN f : f[m] # Undef} |-> f[n]])

QVals == {Undef, Str("shoe"), Str("50%")}
LimitVals == {Undef, Num(Integer(3)), Num(Integer(0)), Num(Integer(-2)),
              Num(Integer(51)), Num(Fraction(37)), Str("abc"), Str("3abc")}
CursorVals == {Undef, Str(""), Str("c1")}

\* what a caller asks for: a query, a limit and a cursor, each optional
Contents == [q : QVals, limit : LimitVals, cursor : CursorVals]

\* the arguments object { q, limit, cursor } of a content
ArgsOf(c) == Fields([q |-> c.q, limit |-> c.limit, cursor |-> c.cursor])

\* the query parameters q, limit, cursor of a content
ParamsOf(c) ==
  LET f == [q |-> c.q, limit |-> c.limit, cursor |-> c.cursor]
  IN [n \in {m \in DOMAIN f : f[m] # Undef} |-> JsString(f[n])]

\* a tool call { id, arguments, function: { parameters } }
ToolCall(id, arguments, parameters) ==
  Fields([id |-> id, arguments |-> arguments,
          function |-> IF parameters = Undef THEN Undef
                       ELSE Obj([name |-> Str("search_inventory"),
                                 parameters |-> parameters])])

\* the message { toolCallList } of a tool-call envelope
MessageOf(calls) == Obj([id |-> Str("msg_1"), toolCallList |-> Arr(calls)])
\* the body { message: { toolCallList } }
EnvelopeOf(calls) == Obj([message |-> MessageOf(calls)])

Request(handler, body, message, params, shape, content) ==
  [handler |-> handler, body |-> body, message |-> message, params |-> params,
   shape |-> shape, content |-> content]

NoContent == [q |-> Undef, limit |-> Undef, cursor |-> Undef]
NoParams == <<>>

\* the envelope that carries content c under tool call id "call_1"
CallOf(c) == ToolCall(Str("call_1"), ArgsOf(c), Undef)

\* one content in one of the documented shapes, and nothing else: the query
\* parameters q/limit/cursor, the plain JSON body, the tool-call envelope
\* in the body, the tool-call envelope in the `message` query parameter
PureRequests ==
  UNION {
    { Request(h, NoText, NoText, ParamsOf(c), "query", c)
        : h \in {"SearchGET", "SearchGET7", "SearchGET4"} }
    \cup { Request(h, JsonText(ArgsOf(c)), NoText, NoParams, "body", c)
        : h \in {"SearchPOST", "SearchGET7"} }
    \cup { Request(h, JsonText(EnvelopeOf(<<CallOf(c)>>)), NoText, NoParams, "envelope", c)
        : h \in {"SearchGET", "SearchPOST", "SearchGET7"} }
    \cup { Request(h, NoText, JsonText(MessageOf(<<CallOf(c)>>)), NoParams, "message", c)
        : h \in {"SearchGET", "SearchGET7", "SearchGET4"} }
    : c \in Contents }

IdVals == {Undef, Str(""), Str("call_1"), Str("call_2")}

\* contents told apart by their query, one per place a request can carry one
InArguments == [q |-> Str("hat"), limit |-> Num(Integer(7)), cursor |-> Undef]
InParameters == [q |-> Str("cap"), limit |-> Undef, cursor |-> Str("c7")]
InBody == [q |-> Str("belt"), limit |-> Num(Integer(4)), cursor |-> Undef]
InMessage == [q |-> Str("sock"), limit |-> Num(Integer(9)), cursor |-> Str("c9")]
InQuery == [q |-> Str("tie"), limit |-> Num(Integer(2)), cursor |-> Undef]
InLater == [q |-> Str("scarf"), limit |-> Num(Integer(8)), cursor |-> Str("c8")]

\* first tool calls: every id, and every way to carry the arguments
FirstCalls ==
  { ToolCall(id, ArgsOf(InArguments), Undef) : id \in IdVals }
  \cup { ToolCall(Str("call_1"), a, p)
           : a \in {Undef, ArgsOf(InArguments)}, p \in {Undef, ArgsOf(InParameters)} }
  \cup { ToolCall(Str("call_1"), Null, ArgsOf(InParameters)) }
\* the tool calls that follow the first one in a batch
LaterCalls == { ToolCall(Str("call_8"), ArgsOf(InLater), Undef),
                ToolCall(Undef, Undef, ArgsOf(InLater)) }

\* toolCallList values of up to MaxCalls tool calls
CallLists ==
  {<<>>} \cup
  UNION { { <<c>> \o rest : c \in FirstCalls, rest \in [1..(n - 1) -> LaterCalls] }
          : n \in 1..MaxCalls }

MixedBodies ==
  {NoText, Malformed, JsonText(Null), JsonText(ArgsOf(InBody))}
  \cup { JsonText(EnvelopeOf(calls)) : calls \in CallLists }
MixedMessages ==
  {NoText, Malformed}
  \cup { JsonText(MessageOf(<<ToolCall(id, ArgsOf(InMessage), Undef)>>))
           : id \in {Undef, Str("call_m")} }
MixedParams == {NoParams, ParamsOf(InQuery), [limit |-> "6"]}

\* search requests that carry several shapes at once, or none
MixedRequests ==
  { Request(h, b, m, p, "mixed", NoContent)
      : h \in {"SearchGET", "SearchPOST", "SearchGET7"},
        b \in MixedBodies, m \in MixedMessages, p \in MixedParams }

IdsVals == {"", "1", " 1 , ,2", " , ", "gid://shopify/ProductVariant/1,2", "2, 1,,2"}

InventoryBodies ==
  {NoText, Malformed, JsonText(Null)}
  \cup { JsonText(EnvelopeOf(<<ToolCall(id, Undef, Undef)>>)) : id \in IdVals }
  \cup { JsonText(Obj([ids |-> Str(ids)])) : ids \in IdsVals }
  \cup { JsonText(EnvelopeOf(<<ToolCall(id, Obj([ids |-> Str(ids)]), Undef)>>))
           : id \in IdVals, ids \in IdsVals }
  \cup { JsonText(EnvelopeOf(<<ToolCall(Str("call_1"), Undef, Obj([ids |-> Str("1")]))>>)) }

InventoryRequests ==
  { Request("InvGET", b, NoText, p, "inventory", NoContent)
      : b \in {NoText, Malformed, JsonText(Null)}
              \cup { JsonText(EnvelopeOf(<<ToolCall(id, Undef, Undef)>>)) : id \in IdVals },
        p \in {NoParams} \cup { [ids |-> ids] : ids \in IdsVals } }
  \cup { Request("InvPOST", b, NoText, NoParams, "inventory", NoContent)
           : b \in InventoryBodies }

LimitParams == {"3", "0", "-2", "51", "abc", "3abc", "3.7"}

CollectionsRequests ==
  { Request("CollectionsGET", NoText, NoText, p, "collections", NoContent)
      : p \in {NoParams, [cursor |-> "c1"]}
              \cup { [limit |-> l] : l \in LimitParams }
              \cup { [limit |-> l, cursor |-> "c1"] : l \in LimitParams } }

\* REST searches with filters, with and without a `message` beside them
FilteredRequests ==
  { Request("SearchGET4", NoText, m, p, "filtered", NoContent)
      : m \in MixedMessages,
        p \in {NoParams, ParamsOf(InQuery), [q |-> "tie", product_type |-> "Clothing"],
               [vendor |-> "acme", available |-> "true"],
               [tag |-> "sale", min_price |-> "5", max_price |-> "9"]} }

\* variantIds of the lengths around the limit of 50, and what is no such list
VariantIdLists ==
  { Arr([i \in 1..n |-> Str("1")]) : n \in {0, 1, MAX_VARIANTS, MAX_VARIANTS + 1} }
  \cup { Arr(<<Str("gid://shopify/ProductVariant/1"), Str("2")>>),
         Arr(<<Str("gid://shopify/Product/7")>>), Arr(<<Num(Integer(1))>>),
         Str("1"), Null }

CheckRequests ==
  { Request("CheckGET", NoText, NoText, p, "check", NoContent)
      : p \in {NoParams, [ids |-> "gid://shopify/Product/7"]}
              \cup { [ids |-> ids] : ids \in IdsVals } }
  \cup { Request("CheckPOST", b, NoText, NoParams, "check", NoContent)
           : b \in {NoText, Malformed, JsonText(Null), JsonText(EmptyObj)}
                   \cup { JsonText(Obj([variantIds |-> v])) : v \in VariantIdLists } }

\* the path segment of /api/products/[id]: bare, a product gid, another gid
ProductRequests ==
  { Request("ProductGET", NoText, NoText, [id |-> id], "product", NoContent)
      : id \in {"7", "doesnotexist", "gid://shopify/Product/7",
                "gid://shopify/ProductVariant/7"} }

\* JSON bodies that are no object: a number, a string, an array
NonObjectBodies ==
  {JsonText(Num(Integer(5))), JsonText(Str("x")), JsonText(Arr(<<>>))}

NonObjectRequests ==
  { Request(h, b, NoText, NoParams, "nonobject", NoContent)
      : h \in {"SearchGET", "SearchPOST", "SearchGET7", "InvGET", "InvPOST", "CheckPOST"},
        b \in NonObjectBodies }

Requests ==
  PureRequests \cup MixedRequests \cup InventoryRequests \cup CollectionsRequests
  \cup FilteredRequests \cup CheckRequests \cup ProductRequests
  \cup NonObjectRequests

(***************************************************************************)
(* lib/env.ts: the environment validated at module load                    *)
(***************************************************************************)
DEFAULT_API_VERSION == "2024-04"

DomainChars == "abcdefghijklmnopqrstuvwxyzABCDEFGHIJKLMNOPQRSTUVWXYZ0123456789-"

EndsWith(s, suffix) ==
  Len(s) >= Len(suffix) /\ SubSeq(s, Len(s) - Len(suffix) + 1, Len(s)) = suffix

\* /^[a-zA-Z0-9-]+\.myshopify\.com$/.test(s)
MatchesStoreDomain(s) ==
  LET name == SubSeq(s, 1, Len(s) - Len(".myshopify.com"))
  IN /\ EndsWith(s, ".myshopify.com")
     /\ Len(name) >= 1
     /\ \A i \in 1..Len(name) : IndexOf(DomainChars, CharAt(name, i), 1) > 0

\* /^20\d{2}-\d{2}$/.test(version)
MatchesApiVersion(version) ==
  /\ Len(version) = 7
  /\ SubSeq(version, 1, 2) = "20"
  /\ CharAt(version, 5) = "-"
  /\ \A i \in {3, 4, 6, 7} : IsDigit(CharAt(version, i))

\* z.string().min(1, ...).regex(...): a value that is no string fails the
\* type check with zod's own message, a string is put to both tests
StoreDomainIssues(v, typeMessage) ==
  IF v = Undef THEN <<typeMessage>>
  ELSE (IF Len(v.s) < 1 THEN <<"SHOPIFY_STORE_DOMAIN is required">> ELSE <<>>)
       \o (IF MatchesStoreDomain(v.s) THEN <<>>
           ELSE <<"SHOPIFY_STORE_DOMAIN must be a valid Shopify store domain (e.g., mystore.myshopify.com)">>)

\* z.string().default("2024-04").refine(...)
ApiVersion(v) == IF v = Undef THEN DEFAULT_API_VERSION ELSE v.s
ApiVersionIssues(v) ==
  IF MatchesApiVersion(ApiVersion(v)) THEN <<>>
  ELSE <<"SHOPIFY_API_VERSION must be in format YYYY-MM">>

\* z.enum(["development", "production", "test"]).default("development")
NodeEnv(v) == IF v = Undef THEN "development" ELSE v.s
NodeEnvIssues(v) ==
  IF NodeEnv(v) \in {"development", "production", "test"} THEN <<>>
  ELSE <<"Invalid enum value">>

\* issues.map(issue => `${path}: ${message}`)
IssueLines(path, messages) ==
  [i \in 1..Len(messages) |-> path \o ": " \o messages[i]]

RECURSIVE JoinLines(_)
\* lines.join("\n")
JoinLines(lines) ==
  IF lines = <<>> THEN ""
  ELSE IF Len(lines) = 1 THEN lines[1]
  ELSE lines[1] \o "\n" \o JoinLines(Tail(lines))

\* envSchema.parse(process.env): the parsed environment, or the Error raised
\* with the issues of all fields
validateEnvironment(processEnv, typeMessage) ==
  LET issues == IssueLines("SHOPIFY_STORE_DOMAIN",
                           StoreDomainIssues(processEnv.SHOPIFY_STORE_DOMAIN, typeMessage))
                \o IssueLines("SHOPIFY_API_VERSION",
                              ApiVersionIssues(processEnv.SHOPIFY_API_VERSION))
                \o IssueLines("NODE_ENV", NodeEnvIssues(processEnv.NODE_ENV))
  IN IF issues = <<>>
     THEN [kind |-> "env",
           SHOPIFY_STORE_DOMAIN |-> processEnv.SHOPIFY_STORE_DOMAIN,
           SHOPIFY_API_VERSION |-> ApiVersion(processEnv.SHOPIFY_API_VERSION),
           NODE_ENV |-> NodeEnv(processEnv.NODE_ENV),
           message |-> ""]
     ELSE [kind |-> "error",
           SHOPIFY_STORE_DOMAIN |-> Undef,
           SHOPIFY_API_VERSION |-> "",
           NODE_ENV |-> "",
           message |-> "Environment validation failed:\n" \o JoinLines(issues)]

\* the environments a process is started with
StoreDomains ==
  {Undef, Str(""), Str("mystore.myshopify.com"), Str("my-store1.myshopify.com"),
   Str("invalid-domain.com"), Str(".myshopify.com"), Str("my_store.myshopify.com"),
   Str("mystore.myshopify.com.evil.io")}
ApiVersions ==
  {Undef, Str(""), Str("2024-04"), Str("2025-10"), Str("invalid-version"),
   Str("2024-4"), Str("24-04")}
NodeEnvs == {Undef, Str("production"), Str("staging")}
ProcessEnvs ==
  [SHOPIFY_STORE_DOMAIN : StoreDomains, SHOPIFY_API_VERSION : ApiVersions,
   NODE_ENV : NodeEnvs]
\* what zod says of a value that is no string: the wording of its version
TypeMessages == {"Required", "Invalid input: expected string, received undefined"}

ValidEnv ==
  [SHOPIFY_STORE_DOMAIN |-> Str("mystore.myshopify.com"),
   SHOPIFY_API_VERSION |-> Undef, NODE_ENV |-> Str("production")]

(***************************************************************************)
(* lib/types.ts: storefrontRequest                                         *)
(***************************************************************************)
\* res.ok: the status is in the range 200-299
Ok(status) == status >= 200 /\ status <= 299

\* storefrontRequest returning the payload whatever the status
storefrontRequest_AnyStatus(r) ==
  LET json == IF Parses(r.body) THEN r.body.json ELSE EmptyObj
  IN [kind |-> "return", json |-> json, status |-> 0, body |-> Undef]

\* const json = await res.json().catch(() => ({})); if (!res.ok) throw
\* new Error(`... ${res.status} ... ${JSON.stringify(json)}`); return json
storefrontRequest(r) ==
  LET json == IF Parses(r.body) THEN r.body.json ELSE EmptyObj
  IN IF ~Ok(r.status)
     THEN [kind |-> "throw", json |-> Undef, status |-> r.status, body |-> Stringify(json)]
     ELSE [kind |-> "return", json |-> json, status |-> 0, body |-> Undef]

\* the responses of the upstream endpoint: a status, and a body that is
\* empty, no JSON, or a JSON value with or without the data field
UpstreamStatuses == {199, 200, 201, 204, 299, 300, 301, 400, 401, 404, 429, 500, 502}
UpstreamBodies ==
  {NoText, Malformed, JsonText(Null), JsonText(EmptyObj),
   JsonText(Obj([data |-> Obj([products |-> Obj([edges |-> Arr(<<>>)])])])),
   JsonText(Obj([data |-> Obj([product |-> Null])])),
   JsonText(Obj([errors |-> Arr(<<Obj([message |-> Str("Throttled")])>>)])),
   JsonText(Str("Bad Gateway"))}

(***************************************************************************)
(* State                                                                   *)
(***************************************************************************)
VARIABLES
  pc,        \* where the handler invocation stands
  request,   \* the request being handled
  bodyUsed,  \* the request's body stream has been consumed
  locals,    \* the handler's variables across its await of the upstream call
  calls,     \* the upstream GraphQL requests this invocation has issued
  outcome,   \* the upstream answer
  response,  \* the HTTP response returned
  requestLogs,  \* debug-logger.ts: the request log shared by all invocations
  debugLogs,    \* server-logger.ts: the logger's in-memory transport
  previous,  \* history: an invocation that has returned, as it ended
  processEnv,  \* process.env when the modules are loaded
  env,         \* lib/env.ts: the validated environment, or the error raised
  res,         \* lib/types.ts: the HTTP response of the upstream fetch
  fetched      \* lib/types.ts: how storefrontRequest ended

vars == <<pc, request, bodyUsed, locals, calls, outcome, response,
          requestLogs, debugLogs, previous, processEnv, env, res, fetched>>

\* the variables of the library modules, untouched by the handlers' steps
lib == <<processEnv, env, res, fetched>>

\* The handlers never read the two log buffers. What their logger calls
\* write to them, and what the invocations running beside them write, are
\* the buffer operations further down, steps of their own that may come
\* between any two steps of a handler; the handler steps leave the buffers
\* as they are.
logs == <<requestLogs, debugLogs>>


NoRequest == Request("none", NoText, NoText, NoParams, "none", NoContent)
NoLocals == [kind |-> "none", isVapi |-> FALSE, toolCallId |-> Undef,
             call |-> SearchCall(Undef, Undef, Undef), early |-> NoResponse]
NoOutcome == [kind |-> "none", edges |-> <<>>, hasNextPage |-> FALSE]
NoRes == [status |-> 0, body |-> NoText]
NotFetched == [kind |-> "none", json |-> Undef, status |-> 0, body |-> Undef]
NoPrevious == [request |-> NoRequest, outcome |-> NoOutcome, response |-> NoResponse]

Init ==
  /\ pc = "idle"
  /\ request = NoRequest
  /\ bodyUsed = FALSE
  /\ locals = NoLocals
  /\ calls = <<>>
  /\ outcome = NoOutcome
  /\ response = NoResponse
  /\ requestLogs = <<>>
  /\ debugLogs = <<>>
  /\ previous = NoPrevious
  /\ processEnv = ValidEnv
  /\ env = validateEnvironment(ValidEnv, "Required")
  /\ res = NoRes
  /\ fetched = NotFetched

\* a request arrives and a handler invocation begins
Receive(r) ==
  /\ pc = "idle"
  /\ pc' = "received"
  /\ request' = r
  /\ bodyUsed' = FALSE
  /\ locals' = NoLocals
  /\ calls' = <<>>
  /\ outcome' = NoOutcome
  /\ response' = NoResponse
  /\ UNCHANGED <<logs, previous, lib>>

\* the part of a handler before its upstream request: n is how it ends,
\* caught the response of its catch block, reads whether it reads the body
Begin(n, caught, reads) ==
  /\ pc = "received"
  /\ locals' = n
  /\ bodyUsed' = IF reads THEN UsedAfterRead(request, bodyUsed) ELSE bodyUsed
  /\ IF n.kind = "call"
     THEN /\ calls' = Append(calls, n.call)
          /\ pc' = "awaiting"
          /\ response' = response
     ELSE /\ calls' = calls
          /\ pc' = "done"
          /\ response' = IF n.kind = "early" THEN n.early ELSE caught
  /\ UNCHANGED <<request, outcome, logs, previous, lib>>

\* the part of a handler after the upstream answer
End(resp) ==
  /\ pc = "replied"
  /\ response' = resp
  /\ pc' = "done"
  /\ UNCHANGED <<request, bodyUsed, locals, calls, outcome, logs, previous, lib>>

\* the Storefront API answers the pending request
UpstreamAnswers(o) ==
  /\ pc = "awaiting"
  /\ o \in CASE calls[Len(calls)].op = "InventoryItems" -> InvOutcomes
            [] calls[Len(calls)].op = "ProductById" -> ProductOutcomes
            [] OTHER -> Outcomes
  /\ outcome' = o
  /\ pc' = "replied"
  /\ UNCHANGED <<request, bodyUsed, locals, calls, response, logs, previous, lib>>

SearchGET_Start ==
  /\ request.handler = "SearchGET"
  /\ Begin(SearchGET_Normalize(request), NoResponse, TRUE)

\* the GET handler answering 503 while the debug log holds entries
SearchGET_Finish_Logged ==
  /\ request.handler = "SearchGET"
  /\ End(IF debugLogs = <<>> THEN SearchGET_Respond(request, locals, bodyUsed, outcome)
         ELSE Response(503, ErrorObj("Busy"), TRUE))

SearchGET_Finish ==
  /\ request.handler = "SearchGET"
  /\ End(SearchGET_Respond(request, locals, bodyUsed, outcome))

SearchGET7_Start ==
  /\ request.handler = "SearchGET7"
  /\ Begin(SearchGET7_Normalize(request), NoResponse, TRUE)

SearchGET7_Finish ==
  /\ request.handler = "SearchGET7"
  /\ End(SearchGET7_Respond(request, locals, bodyUsed, outcome))

SearchPOST_Start ==
  /\ request.handler = "SearchPOST"
  /\ Begin(SearchPOST_Normalize(request),
           SearchPOST_Catch(request, UsedAfterRead(request, bodyUsed)), TRUE)

SearchPOST_Finish ==
  /\ request.handler = "SearchPOST"
  /\ End(SearchPOST_Respond(request, locals, bodyUsed, outcome))

SearchGET4_Start ==
  /\ request.handler = "SearchGET4"
  /\ Begin(SearchGET4_Normalize(request), NoResponse, FALSE)

SearchGET4_Finish ==
  /\ request.handler = "SearchGET4"
  /\ End(SearchGET4_Respond(request, locals, outcome))

InvGET_Start ==
  /\ request.handler = "InvGET"
  /\ Begin(InvGET_Normalize(request), Inv_Catch(InvGET_Normalize(request)), TRUE)

InvGET_Finish ==
  /\ request.handler = "InvGET"
  /\ End(Inv_Respond(locals, outcome))

InvPOST_Start ==
  /\ request.handler = "InvPOST"
  /\ Begin(InvPOST_Normalize(request), Inv_Catch(InvPOST_Normalize(request)), TRUE)

InvPOST_Finish ==
  /\ request.handler = "InvPOST"
  /\ End(Inv_Respond(locals, outcome))

CheckGET_Start ==
  /\ request.handler = "CheckGET"
  /\ Begin(CheckGET_Normalize(request), Check_Catch, FALSE)

CheckGET_Finish ==
  /\ request.handler = "CheckGET"
  /\ End(Check_Respond(outcome))

CheckPOST_Start ==
  /\ request.handler = "CheckPOST"
  /\ Begin(CheckPOST_Normalize(request), Check_Catch, TRUE)

CheckPOST_Finish ==
  /\ request.handler = "CheckPOST"
  /\ End(Check_Respond(outcome))

ProductGET_Start ==
  /\ request.handler = "ProductGET"
  /\ Begin(ProductGET_Normalize(request), NoResponse, FALSE)

ProductGET_Finish ==
  /\ request.handler = "ProductGET"
  /\ End(ProductGET_Respond(outcome))

CollectionsGET_Start ==
  /\ request.handler = "CollectionsGET"
  /\ Begin(CollectionsGET_Normalize(request), NoResponse, FALSE)

CollectionsGET_Finish ==
  /\ request.handler = "CollectionsGET"
  /\ End(CollectionsGET_Respond(outcome))

\* the response is sent; the invocation is over and nothing of it remains
Finished ==
  /\ pc = "done"
  /\ pc' = "idle"
  /\ request' = NoRequest
  /\ bodyUsed' = FALSE
  /\ locals' = NoLocals
  /\ calls' = <<>>
  /\ outcome' = NoOutcome
  /\ response' = NoResponse
  /\ UNCHANGED <<logs, lib>>

Return == Finished /\ UNCHANGED previous

Next ==
  \/ \E r \in Requests : Receive(r)
  \/ Return
  \/ \E o \in Outcomes \cup InvOutcomes \cup ProductOutcomes : UpstreamAnswers(o)
  \/ SearchGET_Start
  \/ SearchGET_Finish
  \/ SearchGET7_Start
  \/ SearchGET7_Finish
  \/ SearchPOST_Start
  \/ SearchPOST_Finish
  \/ SearchGET4_Start
  \/ SearchGET4_Finish
  \/ InvGET_Start
  \/ InvGET_Finish
  \/ InvPOST_Start
  \/ InvPOST_Finish
  \/ CheckGET_Start
  \/ CheckGET_Finish
  \/ CheckPOST_Start
  \/ CheckPOST_Finish
  \/ ProductGET_Start
  \/ ProductGET_Finish
  \/ CollectionsGET_Start
  \/ CollectionsGET_Finish

Spec == Init /\ [][Next]_vars

(***************************************************************************)
(* The log buffers: debug-logger.ts and server-logger.ts                   *)
(***************************************************************************)
MAX_LOGS == 50
MAX_DEBUG_LOGS == 50
MaxLogId == 52

\* the variables of the handler invocation
handling == <<pc, request, bodyUsed, locals, calls, outcome, response>>

\* the id of a new entry holds Date.now(): it is later than the one of the
\* newest entry the buffer holds (an empty buffer starts over at 1)
NextId(buffer) == IF buffer = <<>> THEN 1 ELSE Head(buffer).id + 1

\* addLogEntry without the splice
addLogEntry_NoSplice(logEntry) ==
  /\ NextId(requestLogs) <= MaxLogId
  /\ requestLogs' = <<[logEntry EXCEPT !.id = NextId(requestLogs)]>> \o requestLogs
  /\ UNCHANGED <<handling, debugLogs, previous, lib>>

\* requestLogs.unshift(entry); if (length > MAX_LOGS) splice(MAX_LOGS)
addLogEntry(logEntry) ==
  /\ NextId(requestLogs) <= MaxLogId
  /\ LET entry == [logEntry EXCEPT !.id = NextId(requestLogs)]
         unshifted == <<entry>> \o requestLogs
     IN requestLogs' = IF Len(unshifted) > MAX_LOGS
                       THEN SubSeq(unshifted, 1, MAX_LOGS)
                       ELSE unshifted
  /\ UNCHANGED <<handling, debugLogs, previous, lib>>

\* updateLogEntry putting back an entry it does not find
updateLogEntry_Upsert(id, updates) ==
  /\ LET found == {i \in 1..Len(requestLogs) : requestLogs[i].id = id}
     IN requestLogs' =
          IF found = {}
          THEN <<[id |-> id, method |-> "GET", status |-> updates.status]>> \o requestLogs
          ELSE LET first == CHOOSE i \in found : \A j \in found : i <= j
               IN [requestLogs EXCEPT ![first].status = updates.status]
  /\ UNCHANGED <<handling, debugLogs, previous, lib>>

\* Object.assign(requestLogs.find(log => log.id === id), updates)
updateLogEntry(id, updates) ==
  /\ LET found == {i \in 1..Len(requestLogs) : requestLogs[i].id = id}
     IN requestLogs' =
          IF found = {} THEN requestLogs
          ELSE LET first == CHOOSE i \in found : \A j \in found : i <= j
               IN [requestLogs EXCEPT ![first].status = updates.status]
  /\ UNCHANGED <<handling, debugLogs, previous, lib>>

\* requestLogs.length = 0
clearLogs ==
  /\ requestLogs' = <<>>
  /\ UNCHANGED <<handling, debugLogs, previous, lib>>

\* MemoryTransport.log: debugLogs.unshift(logEntry), splice(MAX_DEBUG_LOGS)
MemoryTransport_log(info) ==
  /\ NextId(debugLogs) <= MaxLogId
  /\ LET logEntry == [id |-> NextId(debugLogs), level |-> info.level,
                      message |-> info.message]
         unshifted == <<logEntry>> \o debugLogs
     IN debugLogs' = IF Len(unshifted) > MAX_DEBUG_LOGS
                     THEN SubSeq(unshifted, 1, MAX_DEBUG_LOGS)
                     ELSE unshifted
  /\ UNCHANGED <<handling, requestLogs, previous, lib>>

\* debugLogs.length = 0
clearDebugLogs ==
  /\ debugLogs' = <<>>
  /\ UNCHANGED <<handling, requestLogs, previous, lib>>

\* what the callers log: a request, the status of its response, a message
LogEntries == {[id |-> 0, method |-> "GET", status |-> 0]}
Updates == {[status |-> 200]}
UpdateIds == {1, 2, MAX_LOGS + 1}
Infos == {[level |-> "info", message |-> "HTTP Request"]}

LogNext ==
  \/ \E logEntry \in LogEntries : addLogEntry(logEntry)
  \/ \E id \in UpdateIds, updates \in Updates : updateLogEntry(id, updates)
  \/ clearLogs
  \/ \E info \in Infos : MemoryTransport_log(info)
  \/ clearDebugLogs

\* the buffers under any sequence of their operations
LogSpec == Init /\ [][LogNext]_vars

(***************************************************************************)
(* A search request handled twice                                          *)
(***************************************************************************)
MaxHeld == 2

\* the search asked for twice, in every shape and by every search handler
RepeatRequests ==
  { r \in PureRequests :
      r.content = [q |-> Str("shoe"), limit |-> Num(Integer(3)), cursor |-> Str("c1")] }

\* the invocation returns and is kept as the one to compare with
Remember ==
  /\ previous = NoPrevious
  /\ Finished
  /\ previous' = [request |-> request, outcome |-> outcome, response |-> response]

\* a logger call of this or of another invocation
Logger_Writes ==
  /\ Len(debugLogs) < MaxHeld
  /\ \E info \in Infos : MemoryTransport_log(info)

RepeatNext ==
  \/ \E r \in RepeatRequests : Receive(r)
  \/ Return
  \/ Remember
  \/ \E o \in Outcomes : UpstreamAnswers(o)
  \/ SearchGET_Start
  \/ SearchGET_Finish
  \/ SearchGET7_Start
  \/ SearchGET7_Finish
  \/ SearchPOST_Start
  \/ SearchPOST_Finish
  \/ SearchGET4_Start
  \/ SearchGET4_Finish
  \/ Logger_Writes
  \/ clearDebugLogs

\* search requests one after the other, the loggers writing in between
RepeatSpec == Init /\ [][RepeatNext]_vars

(***************************************************************************)
(* Module load: lib/env.ts validates process.env                           *)
(***************************************************************************)
NotLoaded ==
  [kind |-> "none", SHOPIFY_STORE_DOMAIN |-> Undef, SHOPIFY_API_VERSION |-> "",
   NODE_ENV |-> "", message |-> ""]

\* the process starts with some environment and no module loaded
EnvInit ==
  /\ pc = "idle"
  /\ request = NoRequest
  /\ bodyUsed = FALSE
  /\ locals = NoLocals
  /\ calls = <<>>
  /\ outcome = NoOutcome
  /\ response = NoResponse
  /\ requestLogs = <<>>
  /\ debugLogs = <<>>
  /\ previous = NoPrevious
  /\ processEnv \in ProcessEnvs
  /\ env = NotLoaded
  /\ res = NoRes
  /\ fetched = NotFetched

\* export const env = validateEnvironment(): the module is evaluated once
LoadModule(typeMessage) ==
  /\ env = NotLoaded
  /\ env' = validateEnvironment(processEnv, typeMessage)
  /\ UNCHANGED <<handling, logs, previous, processEnv, res, fetched>>

\* the route modules import lib/env.ts: a handler runs once it has loaded
Serve(r) ==
  /\ env.kind = "env"
  /\ Receive(r)

EnvNext ==
  \/ \E typeMessage \in TypeMessages : LoadModule(typeMessage)
  \/ \E r \in RepeatRequests : Serve(r)

EnvSpec == EnvInit /\ [][EnvNext]_vars

(***************************************************************************)
(* One upstream fetch                                                      *)
(***************************************************************************)
\* the upstream has answered the fetch of storefrontRequest
FetchInit ==
  /\ pc = "idle"
  /\ request = NoRequest
  /\ bodyUsed = FALSE
  /\ locals = NoLocals
  /\ calls = <<>>
  /\ outcome = NoOutcome
  /\ response = NoResponse
  /\ requestLogs = <<>>
  /\ debugLogs = <<>>
  /\ previous = NoPrevious
  /\ processEnv = ValidEnv
  /\ env = validateEnvironment(ValidEnv, "Required")
  /\ res \in [status : UpstreamStatuses, body : UpstreamBodies]
  /\ fetched = NotFetched

\* storefrontRequest ends: it returns the payload or raises
StorefrontRequest_Ends ==
  /\ fetched = NotFetched
  /\ fetched' = storefrontRequest(res)
  /\ UNCHANGED <<handling, logs, previous, processEnv, env, res>>

FetchNext == StorefrontRequest_Ends

FetchSpec == FetchInit /\ [][FetchNext]_vars

(***************************************************************************)
(* Properties                                                              *)
(***************************************************************************)
SearchHandlers == {"SearchGET", "SearchGET7", "SearchPOST"}
InventoryHandlers == {"InvGET", "InvPOST"}

\* the handler of req, up to its upstream request
NormalizeOf(req) ==
  CASE req.handler = "SearchGET" -> SearchGET_Normalize(req)
    [] req.handler = "SearchGET7" -> SearchGET7_Normalize(req)
    [] req.handler = "SearchPOST" -> SearchPOST_Normalize(req)
    [] req.handler = "InvGET" -> InvGET_Normalize(req)
    [] req.handler = "InvPOST" -> InvPOST_Normalize(req)
    [] OTHER -> CollectionsGET_Normalize(req)

\* the upstream request has been issued
Called == pc \in {"awaiting", "replied", "done"} /\ Len(calls) > 0
\* the handler has run up to its upstream request or its early response
Started == pc \in {"awaiting", "replied", "done"}
Done == pc = "done"

IsLimit(v) == v.t = "number" /\ v.n.k = "int" /\ v.n.v \in 1..MAX_LIMIT

\* C1: whatever limit the caller supplies, in whatever shape, the `first`
\* variable of the upstream ProductSearch or Collections request is an
\* integer in 1..50
C1_FirstInRange ==
  \A i \in 1..Len(calls) :
    calls[i].op \in {"ProductSearch", "Collections"} => IsLimit(calls[i].vars.first)

\* the same content as plain query parameters of GET /search
AsQuery(c) == Request("SearchGET", NoText, NoText, ParamsOf(c), "query", c)

PureShapes == {"query", "body", "envelope", "message"}

\* C2: a request that carries a content in one of the four shapes sends the
\* upstream variables (query, first, after) that the plain query-parameter
\* request with the same content sends
C2_ShapesAgree ==
  (Called /\ request.shape \in PureShapes /\ request.handler \in SearchHandlers)
    => calls[1].vars = SearchGET_Normalize(AsQuery(request.content)).call.vars

\* C3: a body that is no JSON is treated as absent: the handler goes on as
\* it does for the same request without body, and no error response comes
\* of the parse failure
C3_MalformedBodyAbsent ==
  (Started /\ request.body.kind = "malformed"
     /\ request.handler \in SearchHandlers \cup InventoryHandlers)
    => /\ locals = NormalizeOf([request EXCEPT !.body = NoText])
       /\ locals.kind # "threw"

\* the first tool call of the JSON body's envelope, Undef when there is none
BodyCall(req) ==
  IF Parses(req.body) /\ Truthy(req.body.json) THEN FirstToolCall(req.body.json) ELSE Undef

\* the first tool call of the `message` parameter's envelope
MessageCall(req) ==
  IF req.message.kind = "none" THEN Undef
  ELSE First(Get(DecodedMessage(req), "toolCallList"))

\* the plain query parameters q (or query), limit and cursor
HasPlainQuery(req) ==
  \E n \in {"q", "query", "limit", "cursor"} : Truthy(Param(req, n))

PlainQueryArgs(req) ==
  Obj([q |-> Or(Param(req, "q"), Or(Param(req, "query"), Str(""))),
       limit |-> IF Truthy(Param(req, "limit"))
                 THEN Num(ParseInt(Param(req, "limit").s)) ELSE Undef,
       cursor |-> Or(Param(req, "cursor"), Undef)])

\* C4 as stated: the arguments are those of the body's envelope when there
\* is one, else those of the `message` parameter's envelope when there is
\* one, and only then the plain body or query fields
C4_EnvelopeFirst ==
  (Called /\ request.handler \in {"SearchGET", "SearchGET7"})
    => IF Truthy(BodyCall(request))
       THEN calls[1] = SearchGET_Final(ToolCallArgs(BodyCall(request)))
       ELSE Truthy(MessageCall(request))
              => calls[1] = SearchGET_Final(ToolCallArgs(MessageCall(request)))

\* the three sources of arguments of GET /search, each with the tool call
\* id it yields
BodySource(req) ==
  LET bodyJson == IF Parses(req.body) THEN req.body.json ELSE Null
      b == IF req.handler = "SearchGET7" THEN SearchGET7_FromBody(bodyJson)
           ELSE SearchGET_FromBody(bodyJson)
  IN [toolCallId |-> b.toolCallId, vapiArgs |-> b.vapiArgs]
MessageSource(req) ==
  [toolCallId |-> Get(MessageCall(req), "id"),
   vapiArgs |-> ToolCallArgs(MessageCall(req))]
QuerySource(req) ==
  [toolCallId |-> Str("query-params-fallback"), vapiArgs |-> PlainQueryArgs(req)]

\* the source the priority order selects
Selected(req) ==
  IF Truthy(BodySource(req).toolCallId) THEN BodySource(req)
  ELSE IF Truthy(MessageSource(req).toolCallId) THEN MessageSource(req)
  ELSE IF HasPlainQuery(req) THEN QuerySource(req)
  ELSE IF Truthy(MessageCall(req)) THEN MessageSource(req)
  ELSE BodySource(req)

\* C4: GET /search takes its arguments whole from one source: the JSON body
\* when it yields a tool call id, else the `message` parameter's envelope
\* when its first tool call has an id, else the plain query parameters when
\* one is set, else an envelope without id (the parameter's, then the body's)
C4_SourcePriority ==
  (Called /\ request.handler \in {"SearchGET", "SearchGET7"})
    => /\ calls[1] = SearchGET_Final(Selected(request).vapiArgs)
       /\ locals.toolCallId = Selected(request).toolCallId

\* a request with a body that yields an id, a `message` envelope and plain
\* query parameters has been sent upstream
C4_Witness ==
  /\ Called /\ request.handler \in {"SearchGET", "SearchGET7"}
  /\ Truthy(BodyCall(request)) /\ Truthy(Get(BodyCall(request), "id"))
  /\ Truthy(MessageCall(request)) /\ HasPlainQuery(request)
  /\ calls[1].vars.query = Str("hat")

\* the handler of req, from the upstream answer on
RespondOf(req, loc, used, o) ==
  CASE req.handler = "SearchGET" -> SearchGET_Respond(req, loc, used, o)
    [] req.handler = "SearchGET7" -> SearchGET7_Respond(req, loc, used, o)
    [] req.handler = "SearchPOST" -> SearchPOST_Respond(req, loc, used, o)
    [] req.handler \in InventoryHandlers -> Inv_Respond(loc, o)
    [] OTHER -> CollectionsGET_Respond(o)

NonEmptyString(v) == v.t = "string" /\ v.s # ""

\* the body { results: [...] } and its entries
HasResults(body) ==
  body.t = "object" /\ DOMAIN body.f = {"results"} /\ body.f.results.t = "array"
Results(body) == body.f.results.items
OneResult(body) == HasResults(body) /\ Len(Results(body)) = 1
ResultId(body) == Get(Results(body)[1], "toolCallId")
ResultOf(body) == Get(Results(body)[1], "result")

\* { error: message }, as an object or as its JSON text
IsErrorObj(v) ==
  v.t = "object" /\ DOMAIN v.f = {"error"} /\ NonEmptyString(v.f.error)
IsError(v) ==
  IsErrorObj(v) \/ (v.t = "string" /\ v.s = "json" /\ IsErrorObj(v.json))

\* the structured object of a success
Payload(req, o) ==
  IF req.handler = "SearchPOST" THEN SearchPayload(o) ELSE InventoryResult(o.nodes)

IsBatch(req) ==
  /\ Parses(req.body) /\ Truthy(req.body.json)
  /\ IsArray(Get(Get(req.body.json, "message"), "toolCallList"))
  /\ Len(Get(Get(req.body.json, "message"), "toolCallList").items) > 1

\* the same request with its first tool call alone
FirstAlone(req) ==
  [req EXCEPT !.body.json.f.message.f.toolCallList.items = <<@[1]>>]

GetHandlers == {"SearchGET", "SearchGET7"}

\* the request matched the tool-call convention: an envelope whose first
\* tool call has an id, in the body or, for GET /search, in `message`
ByToolCall(req) ==
  \/ NonEmptyString(Get(BodyCall(req), "id"))
  \/ req.handler \in GetHandlers /\ ~Truthy(BodySource(req).toolCallId)
       /\ NonEmptyString(Get(MessageCall(req), "id"))

\* an envelope was detected, with or without id
EnvelopeDetected(req) ==
  \/ Truthy(BodyCall(req))
  \/ req.handler \in GetHandlers /\ Truthy(MessageCall(req))

\* the upstream request failed: it threw or its payload has no data
UpstreamFailed == Done /\ outcome.kind \in {"throw", "nodata"}

\* a failure after the parsing: a validation that fails, an exception on the
\* way, the upstream failure, a null node in the upstream answer
FailedAfterParse ==
  /\ Done
  /\ \/ locals.kind \in {"early", "threw"}
     \/ outcome.kind \in {"throw", "nodata"}
     \/ /\ request.handler \in InventoryHandlers /\ outcome.kind = "data"
        /\ \E i \in 1..Len(outcome.nodes) : IsNullish(outcome.nodes[i])

C8_UpstreamFailureShape ==
  (UpstreamFailed /\ request.handler \in SearchHandlers)
    => /\ response.status = 500
       /\ IF EnvelopeDetected(request) \/ request.handler \in GetHandlers
          THEN OneResult(response.body) /\ IsError(ResultOf(response.body))
          ELSE IsErrorObj(response.body)

\* C9: when the upstream request of /search throws, the toolCallId of the
\* error response is the id of the body's first tool call if the body can
\* be read and parsed again, and "unknown" otherwise
C9_ErrorToolCallId ==
  (Done /\ outcome.kind = "throw" /\ request.handler \in SearchHandlers
     /\ (request.handler = "SearchPOST" => Truthy(BodyCall(request))))
    => /\ OneResult(response.body)
       /\ ResultId(response.body) =
            IF CanRead(request, bodyUsed) /\ Truthy(BodyCall(request))
            THEN Get(BodyCall(request), "id") ELSE Str("unknown")

\* GET /search found no envelope, in the body or in `message`
NoEnvelope(req) ==
  /\ req.handler \in GetHandlers
  /\ ~Truthy(BodyCall(req)) /\ ~Truthy(MessageCall(req))

\* C10 as stated: without envelope the toolCallId of the response of
\* GET /search is "unknown", plain parameters or not
C10_AlwaysUnknown ==
  (Done /\ NoEnvelope(request))
    => OneResult(response.body) /\ ResultId(response.body) = Str("unknown")

\* C10: without envelope, and with a body that yields no id, the toolCallId
\* of the response of GET /search is "query-params-fallback" when a plain
\* query parameter is set and the upstream request did not throw, and
\* "unknown" otherwise
C10_FallbackId ==
  (Done /\ NoEnvelope(request) /\ ~Truthy(BodySource(request).toolCallId))
    => /\ OneResult(response.body)
       /\ ResultId(response.body) =
            IF HasPlainQuery(request) /\ outcome.kind # "throw"
            THEN Str("query-params-fallback") ELSE Str("unknown")

\* a plain GET /search?q=... has succeeded
C10_Witness ==
  /\ Done /\ NoEnvelope(request) /\ request.handler = "SearchGET"
  /\ HasPlainQuery(request) /\ response.status = 200
  /\ ResultId(response.body) = Str("query-params-fallback")

\* C11: a limit that is missing or not a number gives way to the default
\* limit of the route: `first` is a number, never NaN or undefined, and is
\* the default when the one content of the request has no numeric limit
C11_LimitFallback ==
  (Called /\ request.handler \in SearchHandlers)
    => /\ calls[1].vars.first.t = "number" /\ calls[1].vars.first.n.k # "nan"
       /\ (request.shape \in PureShapes /\ request.content.limit \in {Undef, Str("abc")})
            => calls[1].vars.first = Num(Integer(DEFAULT_LIMIT))

IdHandlers == {"CheckGET", "CheckPOST", "ProductGET"}
GivenIds(req) ==
  CASE req.handler = "CheckGET" -> VariantIds(req.params.ids)
    [] req.handler = "CheckPOST" ->
         LET items == Get(req.body.json, "variantIds").items
         IN [i \in 1..Len(items) |-> items[i].s]
    [] OTHER -> <<req.params.id>>
SentIds == IF request.handler = "ProductGET" THEN <<calls[1].vars.id>> ELSE calls[1].vars.ids
ExpectedPrefix(req) ==
  IF req.handler = "ProductGET" THEN "gid://shopify/Product/"
  ELSE "gid://shopify/ProductVariant/"
Normalized(req, id) ==
  IF req.handler = "ProductGET" THEN FormatProductId(id) ELSE FormatVariantId(id)

CheckHandlers == {"CheckGET", "CheckPOST"}
\* the variantIds of a POST body that is a JSON object
GivenVariantIds(req) == Get(req.body.json, "variantIds")
PostsObject(req) ==
  req.handler = "CheckPOST" /\ Parses(req.body) /\ req.body.json.t = "object"
NoIdsParam(req) == req.handler = "CheckGET" /\ "ids" \notin DOMAIN req.params
\* the request fails the validation of /inventory/check
CheckInvalid(req) ==
  \/ NoIdsParam(req)
  \/ req.handler = "CheckGET" /\ "ids" \in DOMAIN req.params
       /\ VariantIds(req.params.ids) = <<>>
  \/ PostsObject(req)
       /\ \/ ~IsArray(GivenVariantIds(req))
          \/ Len(GivenVariantIds(req).items) = 0
          \/ Len(GivenVariantIds(req).items) > MAX_VARIANTS
FullList(req) ==
  /\ PostsObject(req) /\ IsArray(GivenVariantIds(req))
  /\ Len(GivenVariantIds(req).items) = MAX_VARIANTS

C15_MissingDataIs500 ==
  Done
    => /\ outcome.kind = "nodata" => response.status = 500
       /\ response.status = 404
            => /\ request.handler = "ProductGET"
               /\ outcome.kind = "data" /\ outcome.product = Null

\* the answer to ProductById holds the data, and the variants of its product
AnsweredProduct == Done /\ request.handler = "ProductGET" /\ outcome.kind = "data"
UpstreamVariants == Get(outcome.product, "variants").items

\* C16: GET /products/[id] answers 404 {error: "Product not found"} when the
\* upstream returns a null product, and 200 with the projection of the
\* product (its id and title, its variants with their quantities, their
\* number, and whether one of them is in stock) when it returns a product
C16_ProductOrNotFound ==
  AnsweredProduct
    => IF outcome.product = Null
       THEN response.status = 404 /\ response.body = ErrorObj("Product not found")
       ELSE /\ response.status = 200
            /\ Get(response.body, "id") = Get(outcome.product, "id")
            /\ Get(response.body, "title") = Get(outcome.product, "title")
            /\ Get(response.body, "totalVariants") = Num(Integer(Len(UpstreamVariants)))
            /\ Len(Get(response.body, "variants").items) = Len(UpstreamVariants)
            /\ \A i \in 1..Len(UpstreamVariants) :
                 Get(Get(response.body, "variants").items[i], "inventoryQuantity")
                   = Get(UpstreamVariants[i], "inventoryQuantity")
            /\ Get(response.body, "inStock")
                 = Bool(\E i \in 1..Len(UpstreamVariants) :
                          Get(UpstreamVariants[i], "inventoryQuantity")
                            \in {Num(Integer(3)), Num(Integer(9))})

\* a lookup of an id the upstream does not know has been answered
C16_Witness ==
  AnsweredProduct /\ outcome.product = Null /\ response.status = 404

\* C17: a plain GET /search (query parameters only) whose upstream answer
\* holds n products is answered with 200 and the body {products, pagination}
\* where products has n entries, pagination.totalCount is n and hasNextPage
\* and endCursor are those of the upstream pageInfo
C17_PlainSearchBody ==
  (Done /\ request.shape = "query" /\ outcome.kind = "data")
    => /\ response.status = 200
       /\ response.body.t = "object"
       /\ DOMAIN response.body.f = {"products", "pagination"}
       /\ Len(Get(response.body, "products").items) = Len(outcome.edges)
       /\ Get(Get(response.body, "pagination"), "totalCount")
            = Num(Integer(Len(outcome.edges)))
       /\ Get(Get(response.body, "pagination"), "hasNextPage") = Bool(outcome.hasNextPage)
       /\ Get(Get(response.body, "pagination"), "endCursor") = EndCursor(outcome)

\* the body is absent, or no JSON at all (it then counts as absent), or a
\* JSON object
ObjectOrNoBody(req) == req.body.kind = "json" => req.body.json.t = "object"

\* the input of a request passes validation: the searches and the
\* collections listing require nothing of it, the product lookup an id,
\* the inventory checks their ids
PassesValidation(req) ==
  CASE ~ObjectOrNoBody(req) -> FALSE
    [] req.handler \in SearchHandlers \cup {"SearchGET4", "CollectionsGET"} -> TRUE
    [] req.handler = "ProductGET" -> req.params.id # ""
    [] req.handler = "CheckGET" -> ~CheckInvalid(req)
    [] req.handler = "CheckPOST" ->
         /\ PostsObject(req) /\ ~CheckInvalid(req)
         /\ ~CheckFormatRaises(GivenVariantIds(req).items)
    [] req.handler = "InvGET" ->
         "ids" \in DOMAIN req.params /\ VariantIds(req.params.ids) # <<>>
    [] OTHER -> FALSE

\* C18: a handler invocation issues at most one upstream request, and
\* exactly one when its input passes validation; an upstream failure is
\* followed by the response, not by a second request; and an invocation
\* starts with no request issued and no upstream answer at hand, whatever
\* the invocations before it did
C18_OneUpstreamCall ==
  /\ Len(calls) <= 1
  /\ (Started /\ PassesValidation(request)) => Len(calls) = 1
  /\ (pc \in {"replied", "done"} /\ outcome.kind \in {"throw", "nodata"})
       => Len(calls) = 1
  /\ pc \in {"idle", "received"} => calls = <<>> /\ outcome = NoOutcome

\* the request at hand is the remembered one again, with the same upstream
\* answer (none, for both, when no upstream request was issued)
Repeated ==
  /\ Done /\ previous # NoPrevious
  /\ request = previous.request
  /\ outcome = previous.outcome

NewestFirst(buffer) ==
  \A i \in 1..(Len(buffer) - 1) : buffer[i].id > buffer[i + 1].id
\* the buffer after an entry has been added: the new entry, then the old
\* ones without the oldest when max of them were held
AfterAdd(old, new, max) ==
  /\ Len(new) = (IF Len(old) = max THEN max ELSE Len(old) + 1)
  /\ new[1].id > (IF old = <<>> THEN 0 ELSE old[1].id)
  /\ Tail(new) = (IF Len(old) = max THEN SubSeq(old, 1, max - 1) ELSE old)
\* the same entries at the same places, whatever else they hold
SameEntries(old, new) ==
  Len(new) = Len(old) /\ \A i \in 1..Len(old) : new[i].id = old[i].id

\* C20: neither buffer ever holds more than 50 entries and both are kept
\* newest first; an add that finds 50 entries drops exactly the oldest one
\* and keeps the other 49 in their order behind the new entry; an update
\* moves, adds and removes nothing; a clear leaves the buffer empty
C20_BoundedBuffers ==
  /\ [](/\ Len(requestLogs) <= MAX_LOGS /\ NewestFirst(requestLogs)
        /\ Len(debugLogs) <= MAX_DEBUG_LOGS /\ NewestFirst(debugLogs))
  /\ [][/\ (\E logEntry \in LogEntries : addLogEntry(logEntry))
             => AfterAdd(requestLogs, requestLogs', MAX_LOGS)
        /\ (\E info \in Infos : MemoryTransport_log(info))
             => AfterAdd(debugLogs, debugLogs', MAX_DEBUG_LOGS)
        /\ (\E id \in UpdateIds, updates \in Updates : updateLogEntry(id, updates))
             => SameEntries(requestLogs, requestLogs')
        /\ clearLogs => requestLogs' = <<>>
        /\ clearDebugLogs => debugLogs' = <<>>]_vars

\* an add has found the request log full and evicted its oldest entry
C20_Witness ==
  Len(requestLogs) = MAX_LOGS /\ requestLogs[1].id > MAX_LOGS

\* C21: every response of every route (success, 400, 404, 500) carries the
\* CORS headers of corsHeaders: Access-Control-Allow-Origin with the
\* request's origin or *, and Access-Control-Allow-Methods GET,POST,OPTIONS
C21_CorsOnEveryResponse ==
  Done => response.cors

\* s holds sub
Contains(s, sub) ==
  \E i \in 1..(Len(s) - Len(sub) + 1) : SubSeq(s, i, i + Len(sub) - 1) = sub
\* YYYY-MM
IsYearMonth(s) ==
  /\ Len(s) = 7 /\ CharAt(s, 5) = "-"
  /\ \A i \in {1, 2, 3, 4, 6, 7} : IsDigit(CharAt(s, i))
\* the store domain is missing, empty or no <name>.myshopify.com, or the
\* API version is present and no YYYY-MM
MustRaise(pe) ==
  \/ pe.SHOPIFY_STORE_DOMAIN = Undef
  \/ ~MatchesStoreDomain(pe.SHOPIFY_STORE_DOMAIN.s)
  \/ pe.SHOPIFY_API_VERSION # Undef /\ ~IsYearMonth(pe.SHOPIFY_API_VERSION.s)

\* C22: the environment is validated when the module is loaded, before a
\* request is handled; the load raises exactly when the store domain is
\* missing, empty or no <name>.myshopify.com, or the API version is present
\* and not of the form YYYY-MM; a missing API version takes the default;
\* the error for a missing domain contains "SHOPIFY_STORE_DOMAIN is required"
C22_EnvValidation ==
  /\ pc # "idle" => env.kind = "env"
  /\ env # NotLoaded
       => /\ env.kind = "error" <=> MustRaise(processEnv)
          /\ (env.kind = "env" /\ processEnv.SHOPIFY_API_VERSION = Undef)
               => env.SHOPIFY_API_VERSION = DEFAULT_API_VERSION
          /\ processEnv.SHOPIFY_STORE_DOMAIN = Undef
               => Contains(env.message, "SHOPIFY_STORE_DOMAIN is required")

\* no shape of the request yields a query, a limit or a cursor: no body, no
\* query parameters, and no `message` parameter or one that does not parse
NoShape(req) ==
  /\ req.body = NoText
  /\ req.params = NoParams
  /\ req.message \in {NoText, Malformed}
\* the default limit of the route: 20 for GET, 5 for POST
RouteDefault(req) ==
  IF req.handler \in GetHandlers THEN PLAIN_DEFAULT_LIMIT ELSE DEFAULT_LIMIT

\* C23: a search request in which no recognizable shape yields a query, a
\* limit or a cursor is sent upstream as ProductSearch with the empty
\* query, the default limit of the route and no cursor
C23_EmptySearch ==
  (Started /\ request.handler \in SearchHandlers /\ NoShape(request))
    => /\ Len(calls) = 1
       /\ calls[1] = SearchCall(Str(""), Num(Integer(RouteDefault(request))), Null)

\* the JSON value of the upstream body, the empty object for a body that is
\* no JSON
UpstreamJson == IF Parses(res.body) THEN res.body.json ELSE EmptyObj

\* C24: storefrontRequest returns the parsed payload when the upstream
\* status is 2xx, and raises an error that carries the upstream status and
\* body when it is not, so that a non-2xx answer never reaches the handler
\* as data; a body that is no JSON counts as the empty object and raises no
\* parse error
C24_StatusDecides ==
  fetched # NotFetched
    => IF Ok(res.status)
       THEN fetched.kind = "return" /\ fetched.json = UpstreamJson
       ELSE /\ fetched.kind = "throw"
            /\ fetched.status = res.status
            /\ fetched.body = Stringify(UpstreamJson)

\* a 502 whose body is no JSON has been raised as an error
C24_Witness ==
  fetched.kind = "throw" /\ res.status = 502 /\ res.body = Malformed

\* the ids to send for the values of the `ids` parameter: one per non-blank
\* element, trimmed, in the order given, duplicates kept
IdsToSend ==
  [ids \in {"1", " 1 , ,2", "gid://shopify/ProductVariant/1,2", "2, 1,,2"} |->
     CASE ids = "1" -> <<"gid://shopify/ProductVariant/1">>
       [] ids = "2, 1,,2" ->
            <<"gid://shopify/ProductVariant/2", "gid://shopify/ProductVariant/1",
              "gid://shopify/ProductVariant/2">>
       [] OTHER -> <<"gid://shopify/ProductVariant/1", "gid://shopify/ProductVariant/2">>]

\* C25: GET /inventory/check sends upstream the ids of the `ids` parameter
\* in the order given: split on commas, each element trimmed, the blank
\* ones dropped, duplicates kept
C25_IdsInOrder ==
  (Called /\ request.handler \in {"CheckGET", "InvGET"}
     /\ "ids" \in DOMAIN request.params /\ request.params.ids \in DOMAIN IdsToSend)
    => calls[1].vars.ids = IdsToSend[request.params.ids]

\* ids with a blank element and a duplicate have been sent upstream
C25_Witness ==
  /\ Called /\ request.handler = "CheckGET"
  /\ "ids" \in DOMAIN request.params /\ request.params.ids = "2, 1,,2"
  /\ Len(calls[1].vars.ids) = 3


\* a handler is between its first statement and its return
Running == pc \in {"received", "replied"}

\* the exported route handlers
RouteHandlers ==
  {"SearchGET", "SearchGET7", "SearchGET4", "SearchPOST", "InvGET", "InvPOST",
   "CheckGET", "CheckPOST", "ProductGET", "CollectionsGET"}

\* C26: every invocation of a route handler ends with exactly one HTTP
\* response and no exception escapes it, whatever the body of the request
\* (empty, malformed, null, number, string, array) and also when the catch
\* block's own second read of the body fails: a running invocation is one
\* of a route handler, and a response, of a real status, is held exactly by the
\* invocations that have finished
C26_OneResponse ==
  /\ Running => request.handler \in RouteHandlers
  /\ Done <=> response # NoResponse
  /\ Done => response.status \in 200..599

\* POST /search answered from its catch block after the upstream threw, the
\* body being a JSON number that the catch block could not read again
C26_Witness ==
  /\ Done /\ request.handler = "SearchPOST"
  /\ request.body = JsonText(Num(Integer(5)))
  /\ outcome.kind = "throw" /\ bodyUsed
  /\ response.status = 500


\* the { inventory, summary } object of an inventory response, bare or as
\* the result of a tool call
InventoryAnswer ==
  LET result == Get(First(Get(response.body, "results")), "result")
  IN IF result.t = "object" THEN result ELSE response.body

Summary == Get(InventoryAnswer, "summary")
Count(name) == Get(Summary, name).n.v

InventoryAnswered ==
  /\ Done /\ response.status = 200
  /\ request.handler \in InventoryHandlers \cup CheckHandlers
  /\ Summary.t = "object"

\* C27: in every inventory response, summary.totalVariants is the number of
\* entries of `inventory`, summary.inStock + summary.outOfStock is
\* summary.totalVariants, and summary.lowStock is at most summary.inStock,
\* whatever quantities (zero, negative, null) the upstream nodes carry
C27_SummaryAddsUp ==
  InventoryAnswered =>
    /\ Count("totalVariants") = Len(Get(InventoryAnswer, "inventory").items)
    /\ Count("inStock") + Count("outOfStock") = Count("totalVariants")
    /\ Count("lowStock") <= Count("inStock")


\* the result object of a tool-call-shaped GET /search success
SearchResult == Get(First(Get(response.body, "results")), "result").json
\* finalLimit, the limit the handler resolved for the request
EffectiveLimit == locals.call.vars.first.n

SearchAnswered ==
  /\ Done /\ request.handler \in {"SearchGET", "SearchGET7"}
  /\ response.status = 200 /\ outcome.kind = "data"

\* C28: in the tool-call-shaped GET /search response, result.totalFound is
\* the number of product edges the upstream returned, and result.products
\* lists min(totalFound, limit) of them for the effective limit of the
\* request: the first products in upstream order, none within the limit dropped
C28_ProductsWithinLimit ==
  SearchAnswered =>
    LET products == Get(SearchResult, "products").items
        totalFound == Get(SearchResult, "totalFound").n.v
    IN /\ totalFound = Len(outcome.edges)
       /\ EffectiveLimit.k = "int"
       /\ Len(products) = IF totalFound < EffectiveLimit.v THEN totalFound
                          ELSE EffectiveLimit.v
       /\ products = SubSeq(outcome.edges, 1, Len(products))


\* the buffer holds an entry with this id
Holds(id) == \E i \in 1..Len(requestLogs) : requestLogs[i].id = id

\* C29: updateLogEntry(id, updates) changes only the entry whose id is `id`
\* and leaves the length of the buffer and the order of its entries as they
\* were; when no entry has that id any more, evicted by later adds or removed
\* by clearLogs, the call changes nothing and puts no entry back
C29_UpdateFrame ==
  [][\A id \in UpdateIds, updates \in Updates :
       updateLogEntry(id, updates) =>
         /\ Len(requestLogs') = Len(requestLogs)
         /\ \A i \in 1..Len(requestLogs) :
              /\ requestLogs'[i].id = requestLogs[i].id
              /\ requestLogs[i].id # id => requestLogs'[i] = requestLogs[i]
         /\ ~Holds(id) => requestLogs' = requestLogs]_vars

\* the full buffer after entry 1 was evicted, one of the entries it holds
\* updated and the others as they were added
C29_Witness ==
  /\ Len(requestLogs) = MAX_LOGS /\ ~Holds(1)
  /\ \E i \in 1..MAX_LOGS : requestLogs[i].status = 200
  /\ \E i \in 1..MAX_LOGS : requestLogs[i].status = 0


\* the two argument sources of the first tool call of the body's envelope
GivenArguments == Get(BodyCall(request), "arguments")
GivenParameters == Get(Get(BodyCall(request), "function"), "parameters")

\* a search by a tool call of the body that the handler takes its arguments
\* from: any for POST, one with a non-empty id for GET
ByBodyCall ==
  /\ Called /\ request.handler \in SearchHandlers /\ request.shape = "mixed"
  /\ Truthy(BodyCall(request))
  /\ request.handler = "SearchPOST" \/ Truthy(Get(BodyCall(request), "id"))

\* C30: for a tool call with both `arguments` and `function.parameters` the
\* search arguments are those of `arguments` alone; `function.parameters`
\* is used only when `arguments` is absent or falsy, the empty argument set
\* when both are absent; the two are never merged field by field
C30_OneArgumentSource ==
  ByBodyCall =>
    calls[1].vars =
      IF Truthy(GivenArguments)
      THEN [query |-> Str("hat"), first |-> Num(Integer(7)), after |-> Null]
      ELSE IF Truthy(GivenParameters)
      THEN [query |-> Str("cap"), first |-> Num(Integer(DEFAULT_LIMIT)),
            after |-> Str("c7")]
      ELSE [query |-> Str(""), first |-> Num(Integer(DEFAULT_LIMIT)), after |-> Null]

\* a tool call carrying both sources has been searched for, with the query
\* of its arguments and without the cursor of its parameters
C30_Witness ==
  /\ ByBodyCall /\ request.handler = "SearchGET"
  /\ Truthy(GivenArguments) /\ Truthy(GivenParameters)
  /\ calls[1].vars.query = Str("hat") /\ calls[1].vars.after = Null

====
